---- MODULE Spec2Model ----
(***************************************************************************)
(* A model of the tokio-line transport / dispatch core.                    *)
(*                                                                         *)
(* Text is a sequence of Unicode code points, bytes are numbers 0..255.    *)
(* The module holds several components, each with its own state and its    *)
(* own specification:                                                      *)
(*   SpecPlain      the plain LineCodec (simple/src/lib.rs)                *)
(*   SpecMuxCodec   the multiplexed LineCodec (multiplexed/src/lib.rs)     *)
(*   SpecPingPong   the PingPong transport (simple/examples/ping_pong.rs)  *)
(*   SpecTransport  the write side and the readiness of the low-level      *)
(*                  transport (src/low_level_transport.rs)                 *)
(*   SpecPipe       a client of the simple crate over a pipelined          *)
(*                  connection, with its peer                              *)
(*   SpecMux        a client of the multiplexed crate over a multiplexed   *)
(*                  connection, with its peer                              *)
(*   SpecTransportRead  the read side of the low-level transport           *)
(*   SpecStream     the streaming LineCodec (streaming/src/lib.rs)         *)
(*   SpecDecoders   the line decoders given the same bytes                 *)
(*   SpecValidate   Validate around an arbitrary inner service             *)
(*   SpecPingPongLive  SpecPingPong with a dispatcher that keeps flushing  *)
(*                  and an upstream that eventually accepts the pongs      *)
(*   SpecTimeout    the echo service behind the Timeout middleware         *)
(*                  (examples/echo_server_with_timeout.rs)                 *)
(*   SpecHandshake  the server side of the handshake                       *)
(*                  (simple/examples/handshake.rs)                         *)
(*   SpecWire       a connection between Client::connect and serve, in     *)
(*                  either crate                                           *)
(*   SpecPingPipe   a pipelined client that calls and pings, against the   *)
(*                  server of simple/examples/ping_pong.rs                 *)
(*   SpecEcho       the echo example end to end (examples/echo.rs)         *)
(*   SpecEchoLive   SpecEcho with dispatchers that write, flush and read   *)
(*                  when the transport and the source let them             *)
(*   SpecHandshakePair  the client side of the handshake, against the      *)
(*                  server or another peer                                 *)
(*   SpecHandshakePairLive  SpecHandshakePair with handshake futures that  *)
(*                  are polled when they can go on                         *)
(***************************************************************************)
EXTENDS Integers, Sequences, FiniteSets, TLC

(***************************************************************************)
(* Bounds of the model.                                                    *)
(***************************************************************************)
\* longest text (in characters) handed to an encoder or a service
MaxText == 2
\* most bytes a codec buffer holds
MaxBuf == 4
\* most bytes the multiplexed codec's buffer holds
MaxMuxBuf == 7
\* most items the PingPong upstream yields over a connection
MaxIn == 3
\* most application frames the PingPong upstream accepts over a connection
MaxSend == 2
\* most frames the low-level transport accepts over a connection
MaxFrames == 2
\* most calls made on one client
MaxCalls == 3
\* most bytes that arrive on the inner stream of the low-level transport
MaxNet == 4
\* most bytes in the buffer the decoders are compared on
MaxDec == 4
\* most bytes put in the streaming codec's buffer over a connection
MaxStream == 6
\* most calls made on the service behind the Timeout middleware
MaxTmCalls == 2
\* most chunks of bytes a handshaking connection receives
MaxHs == 4
\* most calls made on the client handle of a served connection
MaxWire == 3

\* The calls of the client of the PingPong server.
MaxPg == 3

\* The calls of the echo client.
MaxEc == 2

\* The chunks another peer sends to the handshaking client.
MaxHc == 2

\* The calls of the client that has shaken hands.
MaxHcCalls == 2

(***************************************************************************)
(* State.  Each component has its own variables; a specification moves     *)
(* the variables of its component and leaves the others as Init set them.  *)
(***************************************************************************)
VARIABLES
    \* -- the plain codec and its buffer
    pbuf,   \* the codec's buffer
    pencs,  \* the texts encoded into pbuf since it was last empty
    praw,   \* whether pbuf is no longer exactly those encodings (bytes were
            \* fed from outside, or a decode removed a part of them)
    plast,  \* the last codec operation: op, pre-state, result
    \* -- the multiplexed codec and its buffer
    mbuf,   \* the codec's buffer
    mencs,  \* the (id, text) frames encoded into mbuf since it was empty
    mraw,   \* as praw
    mlast,  \* the last codec operation: op, pre-state, result
    \* -- the PingPong transport middleware and its upstream transport
    pongs_remaining,  \* PingPong.pongs_remaining
    upIn,     \* items the upstream stream holds ready, oldest first
    upHist,   \* every item upstream.poll() has yielded, in order
    upSent,   \* every item upstream.start_send accepted, in order
    ppOut,    \* every item PingPong.poll returned Ready, in order
    ppPings,  \* how many "[ping]" frames poll has intercepted
    ppState,  \* "open", "eof" (poll returned None) or "failed" (an Err)
    ppLast,   \* the last call of a PingPong handler: pre-state and result,
              \* and in `stop` what the upstream answered to a refused send
    \* -- the low-level line transport and its inner stream
    write_buffer,  \* write_buffer.get_ref(): the bytes of the current frame
    write_pos,     \* write_buffer.position()
    wire,      \* every byte inner.write has taken, in order
    accepted,  \* the payloads of the frames write has put in the buffer
    tState,    \* "ok", "panicked" (unimplemented!) or "spinning" (a flush
               \* whose inner.write keeps answering Ok(0))
    tLast,     \* the last call of write or flush: pre-state and result
    innerReadable,  \* the inner stream's is_readable()
    innerWritable,  \* the inner stream's is_writable()
    \* -- a client of the simple crate, its connection and its peer
    plCalls,     \* every call made on the Client: request, state, result
    plFwd,       \* the calls Validate handed to the inner service, in order
    plInflight,  \* the PendingCalls: forwarded calls awaiting a response
    c2s,         \* bytes written to the transport, not yet read by the peer
    s2c,         \* bytes written by the peer, not yet decoded by the client
    peerReqs,    \* the request lines the peer has read, in order
    answered,    \* for each response the peer wrote, which request it is for
    plFrames,    \* the Message frames the client transport has yielded
    plConn,      \* "open", "failed" or "closed"
    plPeerOpen,  \* FALSE once the peer has closed the connection
    plDropped,   \* the calls whose future the caller has dropped
    \* -- a client of the multiplexed crate, its connection and its peer
    mxCalls,     \* every call made on the Client: request, state, result
    mxFwd,       \* the calls Validate handed to the inner service, in order
    mxPending,   \* the pending map: entries [id, call]
    mx_c2s,      \* bytes written to the transport, not yet read by the peer
    mx_s2c,      \* bytes written by the peer, not yet decoded by the client
    mxPeerReqs,  \* the request frames the peer has read, in order
    mxAnswered,  \* for each response the peer wrote, which request it is for
    mxFrames,    \* the (RequestId, payload) frames the client has received
    mxResolved,  \* the calls resolved by a frame, in the order of resolution
    mxConn,      \* "open" or "failed"
    \* -- the low-level line transport, read side
    read_buffer, \* LowLevelLineTransport.read_buffer
    netIn,       \* bytes that arrived on the inner stream and are not read
    peerClosed,  \* the peer hung up: after netIn the inner stream is at EOF
    consumed,    \* every byte the transport has read from the inner stream
    rItems,      \* the Message frames and "invalid string" errors returned
    rLast,       \* the last call of read: what it returned, what inner said
    \* -- the streaming codec
    decoding_head, \* LineCodec.decoding_head of the decoding instance
    sbuf,        \* the buffer the frames are encoded into and decoded from
    sSent,       \* the frames encoded so far, while nothing else was written
    sRaw,        \* TRUE once bytes not made by encode were put in the buffer
    sTotal,      \* the number of bytes put in the buffer so far
    sFrames,     \* the frames decoded so far
    sState,      \* "ok", or "panicked" after a failed assertion
    sLast,       \* the last call of encode or decode: pre-state and result
    \* -- the decoders of the repository on one input
    dbuf,        \* bytes received from a peer
    dlast,       \* the last step: the bytes before it, each decoder's result
    \* -- Validate around an arbitrary inner service
    vState,      \* "idle", or "waiting" for the inner service's future
    vLast,       \* the last call: request, what inner got and gave, outcome
    \* -- the echo service behind the Timeout middleware
    tmCalls,     \* the calls made: request, sleep, inner state, outcome
    tmDelivered, \* the outcomes handed to the callers, in order
    tmDiscarded, \* the inner results that arrived after a timeout
    \* -- the server side of the handshake
    hsIn,        \* bytes received on the connection and not yet decoded
    hsCount,     \* the number of chunks received so far
    hsEof,       \* the peer has closed its side
    hsState,     \* "waiting" for the first line, "sending" the reply,
                 \* "bound" (the dispatcher has the transport), "closed",
                 \* "failed"
    hsErr,       \* the error the connection failed with, or "none"
    hsOut,       \* the bytes the server has written
    hsFirst,     \* what transport.into_future() resolved to
    hsReqs,      \* the requests handed to the Service
    \* -- a connection between Client::connect and serve
    wMode,       \* "none", or the crate in use: "simple" or "multiplexed"
    wService,    \* the service instance made for the connection
    wClient,     \* the client handle Client::connect resolved to
    wNextId,     \* the number of the next RequestId (multiplexed)
    wCalls,      \* the number of calls made on the client handle
    wHanded,     \* the requests handed to the client's transport
    wC2S,        \* the request bytes the server has not decoded yet
    wServed,     \* the number of calls made on the service instance
    wReturned,   \* the responses the service instance returned with Ok
    wFrames      \* every frame encoded on either side, as bytes

plainVars == <<pbuf, pencs, praw, plast>>

muxcVars == <<mbuf, mencs, mraw, mlast>>

ppVars == <<pongs_remaining, upIn, upHist, upSent, ppOut, ppPings, ppState,
            ppLast>>

transVars == <<write_buffer, write_pos, wire, accepted, tState, tLast,
               innerReadable, innerWritable>>

pipeVars == <<plCalls, plFwd, plInflight, c2s, s2c, peerReqs, answered,
              plFrames, plConn, plPeerOpen, plDropped>>

muxVars == <<mxCalls, mxFwd, mxPending, mx_c2s, mx_s2c, mxPeerReqs,
             mxAnswered, mxFrames, mxResolved, mxConn>>

rdVars == <<read_buffer, netIn, peerClosed, consumed, rItems, rLast>>

stVars == <<decoding_head, sbuf, sSent, sRaw, sTotal, sFrames, sState,
            sLast>>

decVars == <<dbuf, dlast>>

valVars == <<vState, vLast>>

tmVars == <<tmCalls, tmDelivered, tmDiscarded>>

hsVars == <<hsIn, hsCount, hsEof, hsState, hsErr, hsOut, hsFirst, hsReqs>>

wVars == <<wMode, wService, wClient, wNextId, wCalls, wHanded, wC2S,
           wServed, wReturned, wFrames>>

VARIABLES
    pgCalls,     \* the client's calls: [kind, req, st, val, err]
    pgC2S,       \* bytes written by the client, not yet read by the server
    pgS2C,       \* bytes written by the server, not yet read by the client
    pgInflight,  \* the server's requests in flight, oldest first: [req, done]
    pgServed,    \* the requests handed to the server's Service
    pgPongs      \* the pongs the server's transport has sent

pgVars == <<pgCalls, pgC2S, pgS2C, pgInflight, pgServed, pgPongs>>

VARIABLES
    ecCalls,     \* the client's calls: [req, st, val]
    ecT,         \* per side, the Line transport: [rb, buf, pos]
    ecNet,       \* per side, the bytes waiting in its socket to be read
    ecOutQ,      \* per side, the frames its dispatcher has yet to write
    ecAgain,     \* per side, whether the last read returned a frame
    ecServed     \* the requests handed to the server's service

ecVars == <<ecCalls, ecT, ecNet, ecOutQ, ecAgain, ecServed>>

VARIABLES
    hcPeer,      \* "none", or whom the client met: "server" or "other"
    hcClient,    \* the client: "idle", "waiting", "bound" or "failed"
    hcErr,       \* the error the client's handshake failed with
    hcServer,    \* the server: "waiting", "sending", "bound" or "failed"
    hcC2S,       \* bytes written by the client, not yet read by the peer
    hcS2C,       \* bytes written by the peer, not yet read by the client
    hcEof,       \* whether the peer has closed its side
    hcCount,     \* the chunks the other peer has sent
    hcWritten,   \* every byte the client has written
    hcCFirst,    \* what the client's into_future resolved to
    hcCalls,     \* the client's calls: [req, st, val]
    hcReqs       \* the requests handed to the server's Service

hcVars == <<hcPeer, hcClient, hcErr, hcServer, hcC2S, hcS2C, hcEof, hcCount,
            hcWritten, hcCFirst, hcCalls, hcReqs>>

vars == <<plainVars, muxcVars, ppVars, transVars, pipeVars, muxVars,
         rdVars,
         stVars,
         decVars,
         valVars,
         tmVars,
         hsVars,
         wVars,
         pgVars,
         ecVars,
         hcVars>>

(***************************************************************************)
(* Bytes and text.                                                         *)
(***************************************************************************)
\* b'\n'
NL == 10

\* The characters texts are made of: '\n', 'a' and a two-byte character.
Chars == {NL, 97, 233}

\* The bytes that arrive from a peer: '\n', 'a', the two bytes of U+00E9,
\* and 0xFF, which no UTF-8 text contains.
Bytes == {NL, 97, 195, 169, 255}

Texts(n) == UNION {[1..k -> Chars] : k \in 0..n}

\* req.chars().find(|&c| c == '\n').is_some()
HasNewline(s) == \E i \in 1..Len(s) : s[i] = NL

\* One char as UTF-8 (the one- and two-byte forms, code points below 0x800).
Utf8Char(c) ==
    IF c < 128 THEN <<c>>
    ELSE <<192 + (c \div 64), 128 + (c % 64)>>

RECURSIVE as_bytes(_)
\* String::as_bytes / into_bytes: the UTF-8 bytes of a text.
as_bytes(s) ==
    IF s = <<>> THEN <<>>
    ELSE CHOOSE out \in {Utf8Char(Head(s)) \o as_bytes(rest)
                         : rest \in {Tail(s)}} : TRUE

\* (mutant) a conversion that takes any bytes for text
from_utf8_unchecked(b) == [ok |-> TRUE, text |-> b]

RECURSIVE from_utf8(_)
\* str::from_utf8: [ok |-> TRUE, text |-> s] or [ok |-> FALSE].  Exact for
\* byte strings over 0x00..0xDF and 0xF5..0xFF (the model's Bytes): a lead
\* byte 0xC2..0xDF needs one continuation byte 0x80..0xBF.
\* The rest of the bytes is bound to a name before the recursive call, so
\* that the call is made on a value.
from_utf8(b) ==
    IF b = <<>> THEN [ok |-> TRUE, text |-> <<>>]
    ELSE IF b[1] < 128 THEN
        CHOOSE out \in
            {IF r.ok THEN [ok |-> TRUE, text |-> <<b[1]>> \o r.text]
             ELSE [ok |-> FALSE, text |-> <<>>]
             : r \in {from_utf8(rest) : rest \in {Tail(b)}}} : TRUE
    ELSE IF b[1] >= 194 /\ b[1] <= 223 /\ Len(b) >= 2
            /\ b[2] >= 128 /\ b[2] <= 191 THEN
        CHOOSE out \in
            {IF r.ok
             THEN [ok |-> TRUE,
                   text |-> <<(b[1] - 192) * 64 + (b[2] - 128)>> \o r.text]
             ELSE [ok |-> FALSE, text |-> <<>>]
             : r \in {from_utf8(rest) : rest \in {SubSeq(b, 3, Len(b))}}}
            : TRUE
    ELSE [ok |-> FALSE, text |-> <<>>]

\* iter().position(|b| *b == b'\n'), 1-based; 0 when there is none.
PositionNL(buf) ==
    IF \E i \in 1..Len(buf) : buf[i] = NL
    THEN CHOOSE i \in 1..Len(buf) :
            buf[i] = NL /\ \A j \in 1..(i - 1) : buf[j] # NL
    ELSE 0

(***************************************************************************)
(* The plain codec: simple/src/lib.rs, impl Codec for LineCodec.           *)
(***************************************************************************)
\* A decode result: Ok(None), Ok(Some(text)) or Err("invalid string"),
\* with the buffer as decode leaves it.
DecNone(buf) == [res |-> "None", text |-> <<>>, buf |-> buf]

\* (mutant) decode that forgets to drain the '\n' after the line
LineCodec_decode_keepNL(buf) ==
    LET i == PositionNL(buf)
    IN  IF i = 0 THEN DecNone(buf)
        ELSE LET line == SubSeq(buf, 1, i - 1)
                 rest == SubSeq(buf, i, Len(buf))
                 s    == from_utf8(line)
             IN  IF s.ok THEN [res |-> "Some", text |-> s.text, buf |-> rest]
                 ELSE [res |-> "Err", text |-> <<>>, buf |-> rest]

\* (mutant) decode that cuts the buffer at its last '\n'
LineCodec_decode_lastNL(buf) ==
    LET i == PositionNL(buf)
        j == IF i = 0 THEN 0
             ELSE CHOOSE k \in 1..Len(buf) :
                     buf[k] = NL /\ \A m \in (k + 1)..Len(buf) : buf[m] # NL
    IN  IF i = 0 THEN DecNone(buf)
        ELSE LET line == SubSeq(buf, 1, j - 1)
                 rest == SubSeq(buf, j + 1, Len(buf))
                 s    == from_utf8(line)
             IN  IF s.ok THEN [res |-> "Some", text |-> s.text, buf |-> rest]
                 ELSE [res |-> "Err", text |-> <<>>, buf |-> rest]

\* LineCodec::decode
LineCodec_decode(buf) ==
    LET i == PositionNL(buf)
    IN  IF i = 0 THEN DecNone(buf)
        ELSE LET line == SubSeq(buf, 1, i - 1)         \* buf.drain_to(n)
                 rest == SubSeq(buf, i + 1, Len(buf))  \* buf.drain_to(1)
                 s    == from_utf8(line)
             IN  IF s.ok THEN [res |-> "Some", text |-> s.text, buf |-> rest]
                 ELSE [res |-> "Err", text |-> <<>>, buf |-> rest]

\* Parser::parse of src/framed_transport.rs, on a compact buffer: None,
\* Some(Frame::Message(text)) or Some(Frame::Error("invalid string")), with
\* the buffer as parse leaves it.
Parser_parse(buf) ==
    LET i == PositionNL(buf)
    IN  IF i = 0 THEN DecNone(buf)
        ELSE LET line == SubSeq(buf, 1, i - 1)         \* buf.shift(n)
                 rest == SubSeq(buf, i + 1, Len(buf))  \* buf.shift(1)
                 s    == from_utf8(line)
             IN  IF s.ok THEN [res |-> "Some", text |-> s.text, buf |-> rest]
                 ELSE [res |-> "Some(Error)", text |-> <<>>, buf |-> rest]

\* LineCodec::encode: buf.extend(msg.as_bytes()); buf.push(b'\n')
LineCodec_encode(msg, buf) == (buf \o as_bytes(msg)) \o <<NL>>

PlainInit ==
    /\ pbuf = <<>>
    /\ pencs = <<>>
    /\ praw = FALSE
    /\ plast = [op |-> "new", pre |-> <<>>, encs |-> <<>>, raw |-> FALSE,
                res |-> "None", text |-> <<>>]

\* codec.encode(msg, &mut buf) for any text
PlainEncode ==
    \E msg \in Texts(MaxText) :
        /\ Len(LineCodec_encode(msg, pbuf)) <= MaxBuf
        /\ pbuf' = LineCodec_encode(msg, pbuf)
        /\ pencs' = IF praw THEN <<>> ELSE Append(pencs, msg)
        /\ praw' = praw
        /\ plast' = [op |-> "encode", pre |-> pbuf, encs |-> pencs,
                     raw |-> praw, res |-> "Ok", text |-> msg]
        /\ UNCHANGED <<muxcVars, ppVars, transVars, pipeVars, muxVars, rdVars, stVars, decVars, valVars, tmVars, hsVars, wVars, pgVars, ecVars, hcVars>>

\* bytes read from the peer are appended to the buffer
PlainFeed ==
    \E b \in Bytes :
        /\ Len(pbuf) < MaxBuf
        /\ pbuf' = Append(pbuf, b)
        /\ praw' = TRUE
        /\ pencs' = <<>>
        /\ plast' = [op |-> "feed", pre |-> pbuf, encs |-> pencs,
                     raw |-> praw, res |-> "Ok", text |-> <<>>]
        /\ UNCHANGED <<muxcVars, ppVars, transVars, pipeVars, muxVars, rdVars, stVars, decVars, valVars, tmVars, hsVars, wVars, pgVars, ecVars, hcVars>>

\* codec.decode(&mut buf)
PlainDecode ==
    LET d == LineCodec_decode(pbuf)
    IN  /\ pbuf' = d.buf
        /\ pencs' = IF d.res = "None" /\ ~praw THEN pencs ELSE <<>>
        /\ praw' = (d.buf # <<>> /\ (praw \/ d.res # "None"))
        /\ plast' = [op |-> "decode", pre |-> pbuf, encs |-> pencs,
                     raw |-> praw, res |-> d.res, text |-> d.text]
        /\ UNCHANGED <<muxcVars, ppVars, transVars, pipeVars, muxVars, rdVars, stVars, decVars, valVars, tmVars, hsVars, wVars, pgVars, ecVars, hcVars>>

\* parser.parse(&mut buf)
PlainParse ==
    LET d == Parser_parse(pbuf)
    IN  /\ pbuf' = d.buf
        /\ pencs' = IF d.res = "None" /\ ~praw THEN pencs ELSE <<>>
        /\ praw' = (d.buf # <<>> /\ (praw \/ d.res # "None"))
        /\ plast' = [op |-> "parse", pre |-> pbuf, encs |-> pencs,
                     raw |-> praw, res |-> d.res, text |-> d.text]
        /\ UNCHANGED <<muxcVars, ppVars, transVars, pipeVars, muxVars, rdVars, stVars, decVars, valVars, tmVars, hsVars, wVars, pgVars, ecVars, hcVars>>

NextPlain == PlainEncode \/ PlainFeed \/ PlainDecode \/ PlainParse

(***************************************************************************)
(* The multiplexed codec: multiplexed/src/lib.rs, impl Decoder / Encoder   *)
(* for LineCodec.  A RequestId is a u64, written here as its 8 bytes, most *)
(* significant first, so that the cast to u32 keeps its meaning.           *)
(***************************************************************************)
\* The u64 whose upper 32 bits are hi (0..255) and lower 32 bits lo (0..255).
U64(hi, lo) == <<0, 0, 0, hi, 0, 0, 0, lo>>

\* The RequestIds the model hands to encode: 0, 1, 10 (whose last byte is
\* b'\n'), and the same three plus 2^32.
RequestIds == {U64(hi, lo) : hi \in {0, 1}, lo \in {0, 1, NL}}

\* request_id as u32: the low 32 bits
as_u32(r) == SubSeq(r, 5, 8)

\* put_u32::<BigEndian>: the four bytes, most significant first
put_u32_be(v) == v

\* get_u32::<BigEndian>() as u64
get_u32_be_as_u64(b) == <<0, 0, 0, 0>> \o b

MuxNone(buf) == [res |-> "None", id |-> U64(0, 0), text |-> <<>>, buf |-> buf]

\* (mutant) decode that looks for '\n' from the start of the buffer and
\* takes one among the id bytes for a malformed frame
MuxLineCodec_decode_fromStart(buf) ==
    IF Len(buf) < 5 THEN MuxNone(buf)
    ELSE LET i == PositionNL(buf)
         IN  IF i = 0 THEN MuxNone(buf)
             ELSE IF i <= 4
             THEN [res |-> "Err", id |-> U64(0, 0), text |-> <<>>,
                   buf |-> SubSeq(buf, i + 1, Len(buf))]
             ELSE LET line == SubSeq(buf, 1, i - 1)
                      rest == SubSeq(buf, i + 1, Len(buf))
                      id   == get_u32_be_as_u64(SubSeq(line, 1, 4))
                      s    == from_utf8(SubSeq(line, 5, Len(line)))
                  IN  IF s.ok
                      THEN [res |-> "Some", id |-> id, text |-> s.text,
                            buf |-> rest]
                      ELSE [res |-> "Err", id |-> U64(0, 0), text |-> <<>>,
                            buf |-> rest]

\* Decoder::decode of the multiplexed LineCodec
MuxLineCodec_decode(buf) ==
    IF Len(buf) < 5 THEN MuxNone(buf)
    ELSE LET i == PositionNL(SubSeq(buf, 5, Len(buf)))   \* buf[4..]
         IN  IF i = 0 THEN MuxNone(buf)
             ELSE LET n    == i - 1
                      line == SubSeq(buf, 1, n + 4)        \* split_to(n + 4)
                      rest == SubSeq(buf, n + 6, Len(buf)) \* split_to(1)
                      id   == get_u32_be_as_u64(SubSeq(line, 1, 4))
                      s    == from_utf8(SubSeq(line, 5, Len(line)))
                  IN  IF s.ok
                      THEN [res |-> "Some", id |-> id, text |-> s.text,
                            buf |-> rest]
                      ELSE [res |-> "Err", id |-> U64(0, 0), text |-> <<>>,
                            buf |-> rest]

\* Encoder::encode of the multiplexed LineCodec (the bytes it appends)
MuxLineCodec_encode(id, msg, buf) ==
    ((buf \o put_u32_be(as_u32(id))) \o as_bytes(msg)) \o <<NL>>

\* The space encode reserves before it appends:
\* let len = 4 + buf.len() + 1; buf.reserve(len)
MuxLineCodec_encode_reserve(buf) == 4 + Len(buf) + 1

MuxcInit ==
    /\ mbuf = <<>>
    /\ mencs = <<>>
    /\ mraw = FALSE
    /\ mlast = [op |-> "new", pre |-> <<>>, encs |-> <<>>, raw |-> FALSE,
                res |-> "None", id |-> U64(0, 0), text |-> <<>>]

\* codec.encode((request_id, msg), &mut buf)
MuxcEncode ==
    \E id \in RequestIds, msg \in Texts(MaxText) :
        /\ Len(MuxLineCodec_encode(id, msg, mbuf)) <= MaxMuxBuf
        /\ mbuf' = MuxLineCodec_encode(id, msg, mbuf)
        /\ mencs' = IF mraw THEN <<>>
                    ELSE Append(mencs, [id |-> id, text |-> msg])
        /\ mraw' = mraw
        /\ mlast' = [op |-> "encode", pre |-> mbuf, encs |-> mencs,
                     raw |-> mraw, res |-> "Ok", id |-> id, text |-> msg]
        /\ UNCHANGED <<plainVars, ppVars, transVars, pipeVars, muxVars, rdVars, stVars, decVars, valVars, tmVars, hsVars, wVars, pgVars, ecVars, hcVars>>

\* bytes read from the peer are appended to the buffer
MuxcFeed ==
    \E b \in {NL, 97, 255} :
        /\ Len(mbuf) < MaxMuxBuf
        /\ mbuf' = Append(mbuf, b)
        /\ mraw' = TRUE
        /\ mencs' = <<>>
        /\ mlast' = [op |-> "feed", pre |-> mbuf, encs |-> mencs,
                     raw |-> mraw, res |-> "Ok", id |-> U64(0, 0),
                     text |-> <<>>]
        /\ UNCHANGED <<plainVars, ppVars, transVars, pipeVars, muxVars, rdVars, stVars, decVars, valVars, tmVars, hsVars, wVars, pgVars, ecVars, hcVars>>

\* codec.decode(&mut buf)
MuxcDecode ==
    LET d == MuxLineCodec_decode(mbuf)
    IN  /\ mbuf' = d.buf
        /\ mencs' = IF d.res = "None" /\ ~mraw THEN mencs ELSE <<>>
        /\ mraw' = (d.buf # <<>> /\ (mraw \/ d.res # "None"))
        /\ mlast' = [op |-> "decode", pre |-> mbuf, encs |-> mencs,
                     raw |-> mraw, res |-> d.res, id |-> d.id,
                     text |-> d.text]
        /\ UNCHANGED <<plainVars, ppVars, transVars, pipeVars, muxVars, rdVars, stVars, decVars, valVars, tmVars, hsVars, wVars, pgVars, ecVars, hcVars>>

NextMuxCodec == MuxcEncode \/ MuxcFeed \/ MuxcDecode

(***************************************************************************)
(* The PingPong transport middleware: simple/examples/ping_pong.rs.        *)
(*                                                                         *)
(* PingPong<T> is generic in its upstream T: Stream + Sink.  The upstream  *)
(* stream yields the items that have arrived (upIn) and NotReady when none *)
(* has; what the upstream sink answers to start_send and poll_complete is  *)
(* its own business, so every answer is possible at every call.            *)
(***************************************************************************)
\* "[ping]"
Ping == <<91, 112, 105, 110, 103, 93>>

\* "[pong]"
Pong == <<91, 112, 111, 110, 103, 93>>

\* What upstream.poll() yields: Some(text), None (end of stream), Err.
Msg(t) == [kind |-> "msg", text |-> t]

Eof == [kind |-> "eof", text |-> <<>>]

ErrItem == [kind |-> "err", text |-> <<>>]

\* The application frames the dispatcher writes: a plain text, and a text
\* equal to the pong sentinel.
FrameTexts == {<<97>>, Pong}

\* The items the upstream yields: a ping, a plain text, the end, an error.
UpItems == {Msg(Ping), Msg(<<97>>), Eof, ErrItem}

\* What the upstream sink does during one poll_complete: it accepts the
\* first k sends, answers `stop` to a send after those, and answers `flush`
\* to its own poll_complete.
SinkAnswers ==
    [k : 0..MaxIn, stop : {"NotReady", "Err"},
     flush : {"Ready", "NotReady", "Err"}]

Min(a, b) == IF a < b THEN a ELSE b

\* An entry of upSent: a pong PingPong sent, or an application frame with
\* the number of pings intercepted before it was submitted.
SentPong == [kind |-> "pong", text |-> Pong, seen |-> 0]

SentApp(t, n) == [kind |-> "app", text |-> t, seen |-> n]

\* (mutant) poll_complete that counts a refused send as sent
poll_complete_countsRefused(st, ans) ==
    LET acc     == Min(ans.k, st.pongs)
        refused == acc < st.pongs
        st1     == [st EXCEPT
                      !.pongs = @ - acc - (IF refused THEN 1 ELSE 0),
                      !.sent  = @ \o [i \in 1..acc |-> SentPong],
                      !.calls = @ + acc + (IF refused THEN 1 ELSE 0)]
    IN  IF refused /\ ans.stop = "Err"
        THEN [st |-> st1, ret |-> "Err"]
        ELSE [st |-> st1, ret |-> ans.flush]

\* (mutant) poll_complete that gives up the pongs it could not send
poll_complete_dropsRemaining(st, ans) ==
    LET acc     == Min(ans.k, st.pongs)
        refused == acc < st.pongs
        st1     == [st EXCEPT
                      !.pongs = 0,
                      !.sent  = @ \o [i \in 1..acc |-> SentPong],
                      !.calls = @ + acc + (IF refused THEN 1 ELSE 0)]
    IN  IF refused /\ ans.stop = "Err"
        THEN [st |-> st1, ret |-> "Err"]
        ELSE [st |-> st1, ret |-> ans.flush]

\* (mutant) poll_complete that only flushes the upstream
poll_complete_flushOnly(st, ans) == [st |-> st, ret |-> ans.flush]

\* PingPong::poll_complete, on st = [pongs, sent, calls, ...]; st.calls
\* counts the calls of upstream.start_send the handler makes.
poll_complete(st, ans) ==
    LET acc     == Min(ans.k, st.pongs)   \* sends that returned Ready
        refused == acc < st.pongs         \* one more send, not accepted
        st1     == [st EXCEPT
                      !.pongs = @ - acc,
                      !.sent  = @ \o [i \in 1..acc |-> SentPong],
                      !.calls = @ + acc + (IF refused THEN 1 ELSE 0)]
    IN  IF refused /\ ans.stop = "Err"
        THEN [st |-> st1, ret |-> "Err"]          \* try!(start_send)
        ELSE [st |-> st1, ret |-> ans.flush]      \* upstream.poll_complete()

NoItem == [kind |-> "none", text |-> <<>>]

\* The answers that make a difference to a poll_complete that starts with
\* `pongs` pongs owed: no `stop` when every send is accepted, no `flush`
\* when a send fails.
SinkAnswersFor(pongs) ==
    {a \in SinkAnswers :
        /\ a.k <= pongs
        /\ (a.k = pongs => a.stop = "NotReady")
        /\ (a.k < pongs /\ a.stop = "Err" => a.flush = "Err")}

\* (mutant) poll that surfaces "[ping]" like any other frame
PingPong_poll_passPing(st) ==
    IF st.q = <<>>
    THEN {[st |-> st, ret |-> "NotReady", item |-> NoItem]}
    ELSE LET m   == Head(st.q)
             st1 == [st EXCEPT !.q = Tail(@), !.hist = Append(@, m)]
         IN  IF m.kind = "err"
             THEN {[st |-> st1, ret |-> "Err", item |-> NoItem]}
             ELSE {[st |-> st1, ret |-> "Ready", item |-> m]}

\* PingPong::poll, on st = [q, hist, pongs, pings, sent, calls]: the set of
\* its possible outcomes, one for each way the upstream sink may answer the
\* poll_complete calls it makes.
RECURSIVE PingPong_poll(_)
PingPong_poll(st) ==
    IF st.q = <<>>
    THEN {[st |-> st, ret |-> "NotReady", item |-> NoItem]}   \* try_ready!
    ELSE LET m   == Head(st.q)
             st1 == [st EXCEPT !.q = Tail(@), !.hist = Append(@, m)]
         IN  IF m.kind = "err"
             THEN {[st |-> st1, ret |-> "Err", item |-> NoItem]}
             ELSE IF m.kind = "msg" /\ m.text = Ping
             THEN LET st2 == [st1 EXCEPT !.pongs = @ + 1, !.pings = @ + 1]
                  IN  UNION {
                        LET pc == poll_complete(st2, a)
                        IN  IF pc.ret = "Err"     \* try!(self.poll_complete())
                            THEN {[st |-> pc.st, ret |-> "Err",
                                   item |-> NoItem]}
                            ELSE PingPong_poll(pc.st)   \* loop
                        : a \in SinkAnswersFor(st2.pongs)}
             ELSE {[st |-> st1, ret |-> "Ready", item |-> m]}

\* (mutant) start_send that forwards whatever the pong counter is
start_send_noGate(st, item, ans) ==
    [st  |-> [st EXCEPT
                !.calls = @ + 1,
                !.sent  = IF ans = "Ready"
                          THEN Append(@, SentApp(item, st.pings)) ELSE @],
     ret |-> ans, item |-> item]

\* PingPong::start_send; ans is what upstream.start_send answers
start_send(st, item, ans) ==
    IF st.pongs > 0
    THEN [st |-> st, ret |-> "NotReady", item |-> item]
    ELSE [st  |-> [st EXCEPT
                     !.calls = @ + 1,
                     !.sent  = IF ans = "Ready"
                               THEN Append(@, SentApp(item, st.pings))
                               ELSE @],
          ret |-> ans, item |-> item]

\* The PingPong value and its upstream, as one record.
PPNow ==
    [q |-> upIn, hist |-> upHist, pongs |-> pongs_remaining,
     pings |-> ppPings, sent |-> upSent, calls |-> 0]

PPInit ==
    /\ pongs_remaining = 0
    /\ upIn = <<>>
    /\ upHist = <<>>
    /\ upSent = <<>>
    /\ ppOut = <<>>
    /\ ppPings = 0
    /\ ppState = "open"
    /\ ppLast = [op |-> "new", pongs |-> 0, sent |-> <<>>, item |-> <<>>,
                 ans |-> "Ready", calls |-> 0, ret |-> "Ready",
                 retItem |-> <<>>, stop |-> "none"]

PPStore(st) ==
    /\ upIn' = st.q
    /\ upHist' = st.hist
    /\ pongs_remaining' = st.pongs
    /\ ppPings' = st.pings
    /\ upSent' = st.sent

\* a frame, the end of the stream or an error arrives at the upstream
UpArrive ==
    \E m \in UpItems :
        /\ ppState = "open"
        /\ Len(upHist) + Len(upIn) < MaxIn
        /\ \A i \in 1..Len(upIn) : upIn[i].kind = "msg"
        /\ upIn' = Append(upIn, m)
        /\ UNCHANGED <<pongs_remaining, upHist, upSent, ppOut, ppPings,
                       ppState, ppLast>>
        /\ UNCHANGED <<plainVars, muxcVars, transVars, pipeVars, muxVars, rdVars, stVars, decVars, valVars, tmVars, hsVars, wVars, pgVars, ecVars, hcVars>>

\* the dispatcher calls PingPong.poll()
PPPoll ==
    \E r \in PingPong_poll(PPNow) :
            /\ ppState = "open"
            /\ PPStore(r.st)
            /\ ppOut' = IF r.ret = "Ready" THEN Append(ppOut, r.item)
                        ELSE ppOut
            /\ ppState' = IF r.ret = "Err" THEN "failed"
                          ELSE IF r.ret = "Ready" /\ r.item.kind = "eof"
                          THEN "eof"
                          ELSE "open"
            /\ ppLast' = [op |-> "poll", pongs |-> pongs_remaining,
                          sent |-> upSent, item |-> <<>>, ans |-> "Ready",
                          calls |-> r.st.calls, ret |-> r.ret,
                          retItem |-> r.item.text, stop |-> "none"]
            /\ UNCHANGED <<plainVars, muxcVars, transVars, pipeVars, muxVars, rdVars, stVars, decVars, valVars, tmVars, hsVars, wVars, pgVars, ecVars, hcVars>>

\* What the upstream may answer to the send start_send forwards; with pongs
\* owed the upstream is not asked and one answer stands for all.
StartSendAnswers(pongs) ==
    IF pongs > 0 THEN {"NotReady"} ELSE {"Ready", "NotReady", "Err"}

\* the dispatcher calls PingPong.start_send(item)
PPStartSend ==
    \E item \in FrameTexts, ans \in StartSendAnswers(pongs_remaining) :
        LET r == start_send(PPNow, item, ans)
        IN  /\ ppState # "failed"
            /\ Cardinality({i \in 1..Len(upSent) : upSent[i].kind = "app"})
                   < MaxSend
            /\ PPStore(r.st)
            /\ ppState' = IF r.ret = "Err" THEN "failed" ELSE ppState
            /\ ppLast' = [op |-> "start_send", pongs |-> pongs_remaining,
                          sent |-> upSent, item |-> item, ans |-> ans,
                          calls |-> r.st.calls, ret |-> r.ret,
                          retItem |-> r.item, stop |-> "none"]
            /\ UNCHANGED ppOut
            /\ UNCHANGED <<plainVars, muxcVars, transVars, pipeVars, muxVars, rdVars, stVars, decVars, valVars, tmVars, hsVars, wVars, pgVars, ecVars, hcVars>>

\* the dispatcher calls PingPong.poll_complete()
PPPollComplete ==
    \E ans \in SinkAnswersFor(pongs_remaining) :
        LET r == poll_complete(PPNow, ans)
        IN  /\ ppState # "failed"
            /\ PPStore(r.st)
            /\ ppState' = IF r.ret = "Err" THEN "failed" ELSE ppState
            /\ ppLast' = [op |-> "poll_complete", pongs |-> pongs_remaining,
                          sent |-> upSent, item |-> <<>>, ans |-> ans.flush,
                          calls |-> r.st.calls, ret |-> r.ret,
                          retItem |-> <<>>,
                          stop |-> IF ans.k < pongs_remaining
                                   THEN ans.stop ELSE "none"]
            /\ UNCHANGED ppOut
            /\ UNCHANGED <<plainVars, muxcVars, transVars, pipeVars, muxVars, rdVars, stVars, decVars, valVars, tmVars, hsVars, wVars, pgVars, ecVars, hcVars>>

NextPingPong == UpArrive \/ PPPoll \/ PPStartSend \/ PPPollComplete

\* The poll_complete calls in which the upstream accepts every pong owed.
PPFlushAccepted ==
    /\ pongs_remaining > 0
    /\ ppState # "failed"
    /\ \E r \in {poll_complete(PPNow,
                                [k |-> pongs_remaining, stop |-> "NotReady",
                                 flush |-> "Ready"])} :
           /\ PPStore(r.st)
           /\ ppLast' = [op |-> "poll_complete", pongs |-> pongs_remaining,
                         sent |-> upSent, item |-> <<>>, ans |-> "Ready",
                         calls |-> r.st.calls, ret |-> r.ret,
                         retItem |-> <<>>, stop |-> "none"]
    /\ UNCHANGED <<ppOut, ppState>>
    /\ UNCHANGED <<plainVars, muxcVars, transVars, pipeVars, muxVars, rdVars, stVars, decVars, valVars, tmVars, hsVars, wVars, pgVars, ecVars, hcVars>>

(***************************************************************************)
(* The low-level line transport: src/low_level_transport.rs (the same code *)
(* is Line<T> in src/lib.rs).  The inner stream T: io::Read + io::Write    *)
(* answers a write of a non-empty buffer with Ok(n), n bytes taken, with   *)
(* Err(WouldBlock) or with another error.                                  *)
(***************************************************************************)
\* The frames handed to write: Message(text) and a frame of another kind.
MessageFrame(t) == [kind |-> "Message", text |-> t]

DoneFrame == [kind |-> "Done", text |-> <<>>]

\* The payloads of the transport model: "", "a", a text with a two-byte
\* character, and a text with a '\n' in it (the transport does not look).
WritePayloads == {<<>>, <<97>>, <<233, 97>>, <<97, NL>>}

WriteFrames == {MessageFrame(t) : t \in WritePayloads} \cup {DoneFrame}

\* (mutant) flush that starts the buffer over after a would-block
RECURSIVE flush_restarts(_)
flush_restarts(st) ==
    LET rem == Len(st.buf) - st.pos
    IN  IF rem = 0
        THEN {[st |-> st, ret |-> "Ok(Some)"]}
        ELSE {[st |-> [st EXCEPT !.pos = 0, !.iw = FALSE],
               ret |-> "Ok(None)"],
              [st |-> st, ret |-> "Err(io)"],
              [st |-> st, ret |-> "spins"]}
             \cup UNION {
                flush_restarts(
                    [st EXCEPT
                       !.pos  = @ + n,
                       !.wire = @ \o SubSeq(st.buf, st.pos + 1, st.pos + n)])
                : n \in 1..rem}

\* LowLevelLineTransport::flush, on st = [buf, pos, wire, acc, ir, iw]: the
\* set of its possible outcomes, one for each way the inner stream may
\* answer.  A stream that answers would-block is not writable after it.  An
\* inner.write that answers Ok(0) leaves the state as it is and the loop
\* calls it again: "spins" is the run in which it always does.
RECURSIVE flush(_)
flush(st) ==
    LET rem == Len(st.buf) - st.pos          \* get_ref()[pos..]
    IN  IF rem = 0                           \* buf.is_empty()
        THEN {[st |-> st, ret |-> "Ok(Some)"]}
        ELSE {[st |-> [st EXCEPT !.iw = FALSE],  \* Err(WouldBlock)
               ret |-> "Ok(None)"],
              [st |-> st, ret |-> "Err(io)"],    \* another error
              [st |-> st, ret |-> "spins"]}      \* Ok(0), for ever
             \cup UNION {                        \* Ok(n), then loop
                flush(next)
                : next \in {[st EXCEPT
                               !.pos  = @ + n,
                               !.wire = @ \o SubSeq(st.buf, st.pos + 1,
                                                    st.pos + n)]
                            : n \in 1..rem}}

\* (mutant) write that does not look for pending writes
write_noPendingCheck(st, frame) ==
    IF frame.kind = "Message"
    THEN flush([st EXCEPT
                  !.buf = Append(as_bytes(frame.text), NL),
                  !.pos = 0,
                  !.acc = Append(@, frame.text)])
    ELSE {[st |-> st, ret |-> "panic"]}

\* LowLevelLineTransport::write
write(st, frame) ==
    IF frame.kind = "Message"
    THEN IF st.pos < Len(st.buf)
         THEN {[st |-> st, ret |-> "Err(pending writes)"]}
         ELSE flush([st EXCEPT
                       !.buf = Append(as_bytes(frame.text), NL),
                       !.pos = 0,              \* io::Cursor::new(bytes)
                       !.acc = Append(@, frame.text)])
    ELSE {[st |-> st, ret |-> "panic"]}        \* unimplemented!()

\* The transport and its inner stream, as one record.
TNow ==
    [buf |-> write_buffer, pos |-> write_pos, wire |-> wire,
     acc |-> accepted, ir |-> innerReadable, iw |-> innerWritable]

TransInit ==
    /\ write_buffer = <<>>       \* io::Cursor::new(vec![])
    /\ write_pos = 0
    /\ wire = <<>>
    /\ accepted = <<>>
    /\ tState = "ok"
    /\ innerReadable = FALSE
    /\ innerWritable = TRUE
    /\ tLast = [op |-> "new", frame |-> DoneFrame, pre |-> <<>>,
                ret |-> "Ok(Some)"]

TStore(r) ==
    /\ write_buffer' = r.st.buf
    /\ write_pos' = r.st.pos
    /\ wire' = r.st.wire
    /\ accepted' = r.st.acc
    /\ innerReadable' = r.st.ir
    /\ innerWritable' = r.st.iw
    /\ tState' = IF r.ret = "panic" THEN "panicked"
                 ELSE IF r.ret = "spins" THEN "spinning"
                 ELSE "ok"

\* the dispatcher calls transport.write(frame)
TWrite ==
    \E frame \in WriteFrames :
        \E r \in write(TNow, frame) :
            /\ tState = "ok"
            /\ Len(r.st.acc) <= MaxFrames
            /\ TStore(r)
            /\ tLast' = [op |-> "write", frame |-> frame, pre |-> TNow,
                         ret |-> r.ret]
            /\ UNCHANGED <<plainVars, muxcVars, ppVars, pipeVars, muxVars, rdVars, stVars, decVars, valVars, tmVars, hsVars, wVars, pgVars, ecVars, hcVars>>

\* the dispatcher calls transport.flush()
TFlush ==
    \E r \in flush(TNow) :
        /\ tState = "ok"
        /\ TStore(r)
        /\ tLast' = [op |-> "flush", frame |-> DoneFrame, pre |-> TNow,
                     ret |-> r.ret]
        /\ UNCHANGED <<plainVars, muxcVars, ppVars, pipeVars, muxVars, rdVars, stVars, decVars, valVars, tmVars, hsVars, wVars, pgVars, ecVars, hcVars>>

\* (mutant) is_writable that mirrors the inner stream
is_writable_mirrorsInner(st) ==
    IF st.iw THEN "true" ELSE "false"

\* Readiness::is_readable
is_readable(st) ==
    IF st.ir THEN "true" ELSE "false"          \* self.inner.is_readable()

\* Readiness::is_writable: "true", "false", or "panic" when the assertion
\* fails
is_writable(st) ==
    LET w == (st.pos = Len(st.buf))
    IN  IF ~w /\ st.iw                         \* assert!(!inner.is_writable())
        THEN "panic"
        ELSE IF w THEN "true" ELSE "false"

\* the reactor asks transport.is_readable()
TIsReadable ==
    /\ tState = "ok"
    /\ tLast' = [op |-> "is_readable", frame |-> DoneFrame, pre |-> TNow,
                 ret |-> is_readable(TNow)]
    /\ UNCHANGED <<write_buffer, write_pos, wire, accepted, tState,
                   innerReadable, innerWritable>>
    /\ UNCHANGED <<plainVars, muxcVars, ppVars, pipeVars, muxVars, rdVars, stVars, decVars, valVars, tmVars, hsVars, wVars, pgVars, ecVars, hcVars>>

\* the reactor asks transport.is_writable()
TIsWritable ==
    /\ tState = "ok"
    /\ tLast' = [op |-> "is_writable", frame |-> DoneFrame, pre |-> TNow,
                 ret |-> is_writable(TNow)]
    /\ tState' = IF is_writable(TNow) = "panic" THEN "panicked" ELSE tState
    /\ UNCHANGED <<write_buffer, write_pos, wire, accepted,
                   innerReadable, innerWritable>>
    /\ UNCHANGED <<plainVars, muxcVars, ppVars, pipeVars, muxVars, rdVars, stVars, decVars, valVars, tmVars, hsVars, wVars, pgVars, ecVars, hcVars>>

\* the inner stream's read readiness changes
InnerReadable ==
    /\ tState = "ok"
    /\ innerReadable' = ~innerReadable
    /\ UNCHANGED <<write_buffer, write_pos, wire, accepted, tState, tLast,
                   innerWritable>>
    /\ UNCHANGED <<plainVars, muxcVars, ppVars, pipeVars, muxVars, rdVars, stVars, decVars, valVars, tmVars, hsVars, wVars, pgVars, ecVars, hcVars>>

\* the inner stream becomes writable again
InnerWritable ==
    /\ tState = "ok"
    /\ ~innerWritable
    /\ innerWritable' = TRUE
    /\ UNCHANGED <<write_buffer, write_pos, wire, accepted, tState, tLast,
                   innerReadable>>
    /\ UNCHANGED <<plainVars, muxcVars, ppVars, pipeVars, muxVars, rdVars, stVars, decVars, valVars, tmVars, hsVars, wVars, pgVars, ecVars, hcVars>>

NextTransport ==
    \/ TWrite \/ TFlush \/ TIsReadable \/ TIsWritable
    \/ InnerReadable \/ InnerWritable

(***************************************************************************)
(* The low-level line transport, read side: LowLevelLineTransport::read    *)
(* (the same code is Line::read in src/lib.rs).  The inner stream's        *)
(* read_to_end appends every byte that has arrived to the buffer and then  *)
(* ends with Ok(n) if the peer hung up (n the number of bytes appended),   *)
(* with Err(WouldBlock) if it did not, or with another error.              *)
(***************************************************************************)
\* The bytes that arrive on the inner stream: '\n', 'a', and a byte that is
\* not valid UTF-8.
NetBytes == {NL, 97, 255}

\* (mutant) an inner stream read that reports "no bytes right now" as Ok(0)
read_to_end_wouldBlockIsEof(st) ==
    LET got == [st EXCEPT !.rb = st.rb \o st.net, !.net = <<>>,
                          !.consumed = st.consumed \o st.net]
    IN  {[st |-> got, res |-> "Ok", n |-> Len(st.net)],
         [st |-> st, res |-> "Err(io)", n |-> 0]}

\* self.inner.read_to_end(&mut self.read_buffer): the outcomes
read_to_end(st) ==
    LET got == [st EXCEPT !.rb = st.rb \o st.net, !.net = <<>>,
                          !.consumed = st.consumed \o st.net]
    IN  {IF st.closed
         THEN [st |-> got, res |-> "Ok", n |-> Len(st.net)]
         ELSE [st |-> got, res |-> "Err(WouldBlock)", n |-> 0],
         [st |-> st, res |-> "Err(io)", n |-> 0]}

RECURSIVE read(_)
\* (mutant) read that hands out the unfinished line when the peer hangs up
read_flushesTail(st) ==
    LET i == PositionNL(st.rb)
    IN  IF i # 0
        THEN LET n    == i - 1
                 tail == SubSeq(st.rb, n + 2, Len(st.rb))
                 line == SubSeq(st.rb, 1, n)
                 s    == from_utf8(line)
             IN  {[st |-> [st EXCEPT !.rb = tail],
                   ret |-> IF s.ok THEN "Message" ELSE "Err(invalid string)",
                   text |-> s.text, inner |-> "none"]}
        ELSE UNION {
               IF r.res = "Ok" /\ r.n = 0 /\ r.st.rb # <<>>
               THEN {[st |-> [r.st EXCEPT !.rb = <<>>],
                      ret |-> IF from_utf8(r.st.rb).ok THEN "Message"
                              ELSE "Err(invalid string)",
                      text |-> from_utf8(r.st.rb).text, inner |-> "Ok(0)"]}
               ELSE IF r.res = "Ok" /\ r.n = 0
               THEN {[st |-> r.st, ret |-> "Done", text |-> <<>>,
                      inner |-> "Ok(0)"]}
               ELSE IF r.res = "Ok"
               THEN read(r.st)
               ELSE IF r.res = "Err(WouldBlock)"
               THEN {[st |-> r.st, ret |-> "Ok(None)", text |-> <<>>,
                      inner |-> r.res]}
               ELSE {[st |-> r.st, ret |-> "Err(io)", text |-> <<>>,
                      inner |-> r.res]}
               : r \in read_to_end(st)}

\* LowLevelLineTransport::read: the set of outcomes [st, ret, text, inner],
\* inner being the result of the last read_to_end of the call ("none" when
\* the call returned without reading).
read(st) ==
    LET i == PositionNL(st.rb)
    IN  IF i # 0
        THEN LET n    == i - 1
                 tail == SubSeq(st.rb, n + 2, Len(st.rb))   \* split_off(n+1)
                 line == SubSeq(st.rb, 1, n)                \* truncate(n)
                 s    == from_utf8(line)
             IN  {[st |-> [st EXCEPT !.rb = tail],
                   ret |-> IF s.ok THEN "Message" ELSE "Err(invalid string)",
                   text |-> s.text, inner |-> "none"]}
        ELSE UNION {
               IF r.res = "Ok" /\ r.n = 0
               THEN {[st |-> r.st, ret |-> "Done", text |-> <<>>,
                      inner |-> "Ok(0)"]}
               ELSE IF r.res = "Ok"
               THEN read(r.st)
               ELSE IF r.res = "Err(WouldBlock)"
               THEN {[st |-> r.st, ret |-> "Ok(None)", text |-> <<>>,
                      inner |-> r.res]}
               ELSE {[st |-> r.st, ret |-> "Err(io)", text |-> <<>>,
                      inner |-> r.res]}
               : r \in read_to_end(st)}

RNow ==
    [rb |-> read_buffer, net |-> netIn, closed |-> peerClosed,
     consumed |-> consumed]

ReadInit ==
    /\ read_buffer = <<>>        \* vec![]
    /\ netIn = <<>>
    /\ peerClosed = FALSE
    /\ consumed = <<>>
    /\ rItems = <<>>
    /\ rLast = [ret |-> "new", text |-> <<>>, inner |-> "none",
                pre |-> <<>>]

\* a byte from the peer arrives on the inner stream
NetArrive ==
    \E b \in NetBytes :
        /\ ~peerClosed
        /\ Len(consumed) + Len(netIn) < MaxNet
        /\ netIn' = Append(netIn, b)
        /\ UNCHANGED <<read_buffer, peerClosed, consumed, rItems, rLast>>
        /\ UNCHANGED <<plainVars, muxcVars, ppVars, transVars, pipeVars,
                       muxVars, stVars, decVars, valVars, tmVars, hsVars, wVars, pgVars, ecVars, hcVars>>

\* the peer hangs up
NetClose ==
    /\ ~peerClosed
    /\ peerClosed' = TRUE
    /\ UNCHANGED <<read_buffer, netIn, consumed, rItems, rLast>>
    /\ UNCHANGED <<plainVars, muxcVars, ppVars, transVars, pipeVars, muxVars, stVars, decVars, valVars, tmVars, hsVars, wVars, pgVars, ecVars, hcVars>>

\* transport.read()
TRead ==
    \E r \in read(RNow) :
        /\ read_buffer' = r.st.rb
        /\ netIn' = r.st.net
        /\ consumed' = r.st.consumed
        /\ rItems' = IF r.ret \in {"Message", "Err(invalid string)"}
                     THEN Append(rItems, [ret |-> r.ret, text |-> r.text])
                     ELSE rItems
        /\ rLast' = [ret |-> r.ret, text |-> r.text, inner |-> r.inner,
                     pre |-> read_buffer]
        /\ UNCHANGED peerClosed
        /\ UNCHANGED <<plainVars, muxcVars, ppVars, transVars, pipeVars,
                       muxVars, stVars, decVars, valVars, tmVars, hsVars, wVars, pgVars, ecVars, hcVars>>

NextTransportRead == NetArrive \/ NetClose \/ TRead

(***************************************************************************)
(* The streaming codec: streaming/src/lib.rs, impl Codec for LineCodec.    *)
(* One buffer stands for the connection: encode appends to it (the         *)
(* encoder does not read decoding_head), the peer may also put bytes of    *)
(* its own in it, and the decoding instance takes frames from its front.   *)
(***************************************************************************)
\* Frame::Message { message, body }
SMessage(t, body) == [kind |-> "Message", text |-> t, flag |-> body]

\* Frame::Body { chunk: Some(t) }
SBodySome(t) == [kind |-> "Body", text |-> t, flag |-> TRUE]

\* Frame::Body { chunk: None }
SBodyNone == [kind |-> "Body", text |-> <<>>, flag |-> FALSE]

\* Frame::Error { error }
SError == [kind |-> "Error", text |-> <<>>, flag |-> FALSE]

\* The texts of the streaming model: "" and "a".
StreamTexts == {<<>>, <<97>>}

\* The frames handed to encode.
StreamFrames ==
    {SMessage(t, b) : t \in StreamTexts, b \in BOOLEAN}
    \cup {SBodySome(t) : t \in StreamTexts} \cup {SBodyNone, SError}

StreamNone(head, buf) ==
    [res |-> "None", frame |-> SBodyNone, head |-> head, buf |-> buf]

\* (mutant) decode that leaves decoding_head alone at the end of a body
StreamLineCodec_decode_noToggleBack(head, buf) ==
    LET i == PositionNL(buf)
    IN  IF i = 0 THEN StreamNone(head, buf)
        ELSE LET s    == from_utf8(SubSeq(buf, 1, i - 1))
                 rest == SubSeq(buf, i + 1, Len(buf))
             IN  IF ~s.ok
                 THEN [res |-> "Err", frame |-> SBodyNone, head |-> head,
                       buf |-> rest]
                 ELSE IF s.text = <<>>
                 THEN [res |-> "Some",
                       frame |-> IF head THEN SMessage(s.text, TRUE)
                                 ELSE SBodyNone,
                       head |-> FALSE, buf |-> rest]
                 ELSE [res |-> "Some",
                       frame |-> IF head THEN SMessage(s.text, FALSE)
                                 ELSE SBodySome(s.text),
                       head |-> head, buf |-> rest]

\* (mutant) decode that announces no body after an empty head
StreamLineCodec_decode_noBodyFlag(head, buf) ==
    LET i == PositionNL(buf)
    IN  IF i = 0 THEN StreamNone(head, buf)
        ELSE LET s    == from_utf8(SubSeq(buf, 1, i - 1))
                 rest == SubSeq(buf, i + 1, Len(buf))
             IN  IF ~s.ok
                 THEN [res |-> "Err", frame |-> SBodyNone, head |-> head,
                       buf |-> rest]
                 ELSE IF s.text = <<>>
                 THEN [res |-> "Some",
                       frame |-> IF head THEN SMessage(s.text, FALSE)
                                 ELSE SBodyNone,
                       head |-> ~head, buf |-> rest]
                 ELSE [res |-> "Some",
                       frame |-> IF head THEN SMessage(s.text, FALSE)
                                 ELSE SBodySome(s.text),
                       head |-> head, buf |-> rest]

\* Decoder::decode of the streaming LineCodec, on decoding_head and the
\* buffer: the result, the frame, and both after the call.
StreamLineCodec_decode(head, buf) ==
    LET i == PositionNL(buf)
    IN  IF i = 0 THEN StreamNone(head, buf)                \* Ok(None)
        ELSE LET s    == from_utf8(SubSeq(buf, 1, i - 1))  \* drain_to(n)
                 rest == SubSeq(buf, i + 1, Len(buf))      \* drain_to(1)
             IN  IF ~s.ok
                 THEN [res |-> "Err", frame |-> SBodyNone, head |-> head,
                       buf |-> rest]
                 ELSE IF s.text = <<>>
                 THEN [res |-> "Some",
                       frame |-> IF head THEN SMessage(s.text, TRUE)
                                 ELSE SBodyNone,
                       head |-> ~head, buf |-> rest]
                 ELSE [res |-> "Some",
                       frame |-> IF head THEN SMessage(s.text, FALSE)
                                 ELSE SBodySome(s.text),
                       head |-> head, buf |-> rest]

\* (mutant) encode without the assertion
StreamLineCodec_encode_noAssert(frame, buf) ==
    IF frame.kind = "Error"
    THEN [res |-> "Err", buf |-> buf]
    ELSE [res |-> "Ok", buf |-> (buf \o as_bytes(frame.text)) \o <<NL>>]

\* Encoder::encode of the streaming LineCodec: Ok(()), Err(error), or
\* "panic" when the assertion fails; and the buffer after the call.
StreamLineCodec_encode(frame, buf) ==
    IF frame.kind = "Message"
    THEN IF (frame.text = <<>>) = frame.flag     \* assert!(.. == body)
         THEN [res |-> "Ok",
               buf |-> (buf \o as_bytes(frame.text)) \o <<NL>>]
         ELSE [res |-> "panic", buf |-> buf]
    ELSE IF frame.kind = "Body"
    THEN [res |-> "Ok",
          buf |-> (buf \o (IF frame.flag THEN as_bytes(frame.text)
                           ELSE <<>>)) \o <<NL>>]
    ELSE [res |-> "Err", buf |-> buf]             \* Frame::Error

StreamInit ==
    /\ decoding_head = TRUE      \* bind_transport: decoding_head: true
    /\ sbuf = <<>>
    /\ sSent = <<>>
    /\ sRaw = FALSE
    /\ sTotal = 0
    /\ sFrames = <<>>
    /\ sState = "ok"
    /\ sLast = [op |-> "new", frame |-> SBodyNone, res |-> "Ok",
                head |-> TRUE, buf |-> <<>>]

\* codec.encode(frame, &mut buf)
StEncode ==
    \E frame \in StreamFrames :
        LET e == StreamLineCodec_encode(frame, sbuf)
        IN  /\ sState = "ok"
            /\ sTotal + (Len(e.buf) - Len(sbuf)) <= MaxStream
            /\ sbuf' = e.buf
            /\ sTotal' = sTotal + (Len(e.buf) - Len(sbuf))
            /\ sSent' = IF e.res = "Ok" /\ ~sRaw THEN Append(sSent, frame)
                        ELSE sSent
            /\ sState' = IF e.res = "panic" THEN "panicked" ELSE sState
            /\ sLast' = [op |-> "encode", frame |-> frame, res |-> e.res,
                         head |-> decoding_head, buf |-> sbuf]
            /\ UNCHANGED <<decoding_head, sRaw, sFrames>>
            /\ UNCHANGED <<plainVars, muxcVars, ppVars, transVars, pipeVars,
                           muxVars, rdVars, decVars, valVars, tmVars, hsVars, wVars, pgVars, ecVars, hcVars>>

\* a byte that no encode made is appended to the buffer
StFeed ==
    \E b \in NetBytes :
        /\ sState = "ok"
        /\ sTotal < MaxStream
        /\ sbuf' = Append(sbuf, b)
        /\ sTotal' = sTotal + 1
        /\ sRaw' = TRUE
        /\ sSent' = <<>>
        /\ sLast' = [op |-> "feed", frame |-> SBodyNone, res |-> "Ok",
                     head |-> decoding_head, buf |-> sbuf]
        /\ UNCHANGED <<decoding_head, sFrames, sState>>
        /\ UNCHANGED <<plainVars, muxcVars, ppVars, transVars, pipeVars,
                       muxVars, rdVars, decVars, valVars, tmVars, hsVars, wVars, pgVars, ecVars, hcVars>>

\* codec.decode(&mut buf)
StDecode ==
    LET d == StreamLineCodec_decode(decoding_head, sbuf)
    IN  /\ sState = "ok"
        /\ decoding_head' = d.head
        /\ sbuf' = d.buf
        /\ sFrames' = IF d.res = "Some" THEN Append(sFrames, d.frame)
                      ELSE sFrames
        /\ sLast' = [op |-> "decode", frame |-> d.frame, res |-> d.res,
                     head |-> decoding_head, buf |-> sbuf]
        /\ UNCHANGED <<sSent, sRaw, sTotal, sState>>
        /\ UNCHANGED <<plainVars, muxcVars, ppVars, transVars, pipeVars,
                       muxVars, rdVars, decVars, valVars, tmVars, hsVars, wVars, pgVars, ecVars, hcVars>>

\* Line::Once(text)
LineOnce(t) == [kind |-> "Once", text |-> t, chunks |-> <<>>]

\* Line::Stream(LineStream { inner }): the chunks the body will produce
LineStreamOf(chunks) == [kind |-> "Stream", text |-> <<>>, chunks |-> chunks]

\* The Line values an application sends or returns.
Lines ==
    {LineOnce(t) : t \in StreamTexts}
    \cup {LineStreamOf(c) : c \in {<<>>, <<<<97>>>>}}

\* impl From<Line> for Message<String, Body<String, io::Error>>
Message_from_Line(src) ==
    IF src.kind = "Once"
    THEN [kind |-> "WithoutBody", head |-> src.text, body |-> <<>>]
    ELSE [kind |-> "WithBody", head |-> <<>>, body |-> src.chunks]

\* The head frame the streaming dispatcher writes for a Message: its head,
\* and the body flag set exactly for WithBody.
Message_head_frame(m) == SMessage(m.head, m.kind = "WithBody")

\* the application hands a Line to the connection: it is converted to a
\* Message and the head frame is encoded
StSendLine ==
    \E line \in Lines :
        LET frame == Message_head_frame(Message_from_Line(line))
            e == StreamLineCodec_encode(frame, sbuf)
        IN  /\ sState = "ok"
            /\ sTotal + (Len(e.buf) - Len(sbuf)) <= MaxStream
            /\ sbuf' = e.buf
            /\ sTotal' = sTotal + (Len(e.buf) - Len(sbuf))
            /\ sSent' = IF e.res = "Ok" /\ ~sRaw THEN Append(sSent, frame)
                        ELSE sSent
            /\ sState' = IF e.res = "panic" THEN "panicked" ELSE sState
            /\ sLast' = [op |-> "send", frame |-> frame, res |-> e.res,
                         head |-> decoding_head, buf |-> sbuf]
            /\ UNCHANGED <<decoding_head, sRaw, sFrames>>
            /\ UNCHANGED <<plainVars, muxcVars, ppVars, transVars, pipeVars,
                           muxVars, rdVars, decVars, valVars, tmVars, hsVars, wVars, pgVars, ecVars, hcVars>>

NextStream == StEncode \/ StFeed \/ StDecode \/ StSendLine

(***************************************************************************)
(* The line decoders side by side: the plain codec, the multiplexed codec  *)
(* (behind a 4-byte RequestId), the streaming codec in head and in body    *)
(* mode, and the low-level transport's read, each given the same bytes.    *)
(***************************************************************************)
DecInit ==
    /\ dbuf = <<>>
    /\ dlast = [op |-> "new", pre |-> <<>>, plain |-> "None",
                mux |-> "None", shead |-> "None", sbody |-> "None",
                read |-> {}]

\* a byte from the peer is appended
DecFeed ==
    \E b \in Bytes :
        /\ Len(dbuf) < MaxDec
        /\ dbuf' = Append(dbuf, b)
        /\ dlast' = [dlast EXCEPT !.op = "feed", !.pre = dbuf]
        /\ UNCHANGED <<plainVars, muxcVars, ppVars, transVars, pipeVars,
                       muxVars, rdVars, stVars, valVars, tmVars, hsVars, wVars, pgVars, ecVars, hcVars>>

\* each decoder is called once on the bytes
DecDecode ==
    /\ dlast' =
         [op    |-> "decode",
          pre   |-> dbuf,
          plain |-> LineCodec_decode(dbuf).res,
          mux   |-> MuxLineCodec_decode(<<0, 0, 0, 1>> \o dbuf).res,
          shead |-> StreamLineCodec_decode(TRUE, dbuf).res,
          sbody |-> StreamLineCodec_decode(FALSE, dbuf).res,
          read  |-> {r.ret : r \in read([rb |-> dbuf, net |-> <<>>,
                                         closed |-> FALSE,
                                         consumed |-> dbuf])}]
    /\ dbuf' = LineCodec_decode(dbuf).buf
    /\ UNCHANGED <<plainVars, muxcVars, ppVars, transVars, pipeVars,
                   muxVars, rdVars, stVars, valVars, tmVars, hsVars, wVars, pgVars, ecVars, hcVars>>

NextDecoders == DecFeed \/ DecDecode

(***************************************************************************)
(* The Validate middleware (simple/src/lib.rs) and a client of the simple  *)
(* crate: Client { inner: Validate<ClientService<TcpStream, LineProto>> }. *)
(* ClientService and its dispatcher are tokio-proto's pipeline client;     *)
(* they are modelled from section 4.3 of the specification: a FIFO of      *)
(* PendingCalls, requests written in submission order, each inbound        *)
(* Message resolving the oldest PendingCall.  The transport is             *)
(* Framed<T, LineCodec>: frames go through LineCodec_encode / _decode.     *)
(***************************************************************************)
\* The requests of the client model: "a", "b" and "a\nb".
CallTexts == {<<97>>, <<98>>, <<97, NL, 98>>}

\* The peer's service: the response to a request is "r" followed by it.
PeerResponse(req) == <<114>> \o req

\* (mutant) Validate::call that forwards without looking at the request
Validate_call_noCheck(req) == "inner"

\* (mutant) Validate::call that rejects every request
Validate_call_rejectsAll(req) == "InvalidInput"

\* Validate::call, the request side: Err(InvalidInput) at once, or the
\* call of the inner service.
Validate_call(req) ==
    IF HasNewline(req) THEN "InvalidInput" ELSE "inner"

\* (mutant) the and_then closure without the scan of the response
Validate_response_noCheck(resp) == [st |-> "ok", val |-> resp]

\* Validate::call, the and_then closure on the inner service's response.
Validate_response(resp) ==
    IF HasNewline(resp)
    THEN [st |-> "err", val |-> "InvalidInput"]
    ELSE [st |-> "ok", val |-> resp]

\* (mutant) a dispatcher that resolves the newest PendingCall
Pipeline_dispatch_newest(inflight) == inflight[Len(inflight)]

\* The pipeline discipline: the PendingCall an inbound Message resolves is
\* the oldest outstanding one.
Pipeline_dispatch(inflight) == Head(inflight)

\* The pipeline client's ClientService::call: a PendingCall is queued and
\* the request is written to the transport.
Pipeline_call(idx, req) ==
    /\ plFwd' = Append(plFwd, idx)
    /\ plInflight' = Append(plInflight, idx)
    /\ c2s' = LineCodec_encode(req, c2s)

PipeInit ==
    /\ plCalls = <<>>
    /\ plFwd = <<>>
    /\ plInflight = <<>>
    /\ c2s = <<>>
    /\ s2c = <<>>
    /\ peerReqs = <<>>
    /\ answered = <<>>
    /\ plFrames = <<>>
    /\ plConn = "open"
    /\ plPeerOpen = TRUE
    /\ plDropped = {}

\* Client::call(req), which is Validate::call(req)
ClientCall ==
    \E req \in CallTexts :
        LET idx == Len(plCalls) + 1
        IN  /\ plConn = "open"
            /\ Len(plCalls) < MaxCalls
            /\ IF Validate_call(req) = "InvalidInput"
               THEN /\ plCalls' = Append(plCalls,
                          [req |-> req, st |-> "err", val |-> "InvalidInput",
                           n |-> 1])
                    /\ UNCHANGED <<plFwd, plInflight, c2s>>
               ELSE /\ plCalls' = Append(plCalls,
                          [req |-> req, st |-> "pending", val |-> <<>>,
                           n |-> 0])
                    /\ Pipeline_call(idx, req)
            /\ UNCHANGED <<s2c, peerReqs, answered, plFrames, plConn,
                           plPeerOpen, plDropped>>
            /\ UNCHANGED <<plainVars, muxcVars, ppVars, transVars, muxVars, rdVars, stVars, decVars, valVars, tmVars, hsVars, wVars, pgVars, ecVars, hcVars>>

\* the peer reads one request line
PeerRead ==
    LET d == LineCodec_decode(c2s)
    IN  /\ d.res = "Some"
        /\ c2s' = d.buf
        /\ peerReqs' = Append(peerReqs, d.text)
        /\ UNCHANGED <<plCalls, plFwd, plInflight, s2c, answered, plFrames,
                       plConn, plPeerOpen, plDropped>>
        /\ UNCHANGED <<plainVars, muxcVars, ppVars, transVars, muxVars, rdVars, stVars, decVars, valVars, tmVars, hsVars, wVars, pgVars, ecVars, hcVars>>

\* the peer writes the response to a request it has read and not answered:
\* the oldest such request if it answers in order, but it may pick any
PeerRespond ==
    \E k \in 1..Len(peerReqs) :
        /\ plPeerOpen
        /\ \A j \in 1..Len(answered) : answered[j] # k
        /\ s2c' = LineCodec_encode(PeerResponse(peerReqs[k]), s2c)
        /\ answered' = Append(answered, k)
        /\ UNCHANGED <<plCalls, plFwd, plInflight, c2s, peerReqs, plFrames,
                       plConn, plPeerOpen, plDropped>>
        /\ UNCHANGED <<plainVars, muxcVars, ppVars, transVars, muxVars, rdVars, stVars, decVars, valVars, tmVars, hsVars, wVars, pgVars, ecVars, hcVars>>

Remove(seq, x) == SelectSeq(seq, LAMBDA y : y # x)

\* the client's dispatcher polls its transport and gets a frame
ClientRecv ==
    LET d == LineCodec_decode(s2c)
    IN  /\ plConn = "open"
        /\ d.res # "None"
        /\ s2c' = d.buf
        /\ IF d.res = "Some" /\ plInflight # <<>>
           THEN LET idx == Pipeline_dispatch(plInflight)
                    r   == Validate_response(d.text)
                IN  /\ plCalls' = [plCalls EXCEPT
                                     ![idx].st = r.st, ![idx].val = r.val,
                                     ![idx].n = @ + 1]
                    /\ plInflight' = Remove(plInflight, idx)
                    /\ plFrames' = Append(plFrames, d.text)
                    /\ plConn' = plConn
           ELSE /\ plCalls' = [i \in 1..Len(plCalls) |->
                                 IF plCalls[i].st = "pending"
                                 THEN [plCalls[i] EXCEPT
                                         !.st = "err", !.val = "Connection",
                                         !.n = @ + 1]
                                 ELSE plCalls[i]]
                /\ plInflight' = <<>>
                /\ plFrames' = plFrames
                /\ plConn' = "failed"
        /\ UNCHANGED <<plFwd, c2s, peerReqs, answered, plPeerOpen,
                       plDropped>>
        /\ UNCHANGED <<plainVars, muxcVars, ppVars, transVars, muxVars, rdVars, stVars, decVars, valVars, tmVars, hsVars, wVars, pgVars, ecVars, hcVars>>

\* the peer closes the connection
PeerClose ==
    /\ plPeerOpen
    /\ plPeerOpen' = FALSE
    /\ UNCHANGED <<plCalls, plFwd, plInflight, c2s, s2c, peerReqs, answered,
                   plFrames, plConn, plDropped>>
    /\ UNCHANGED <<plainVars, muxcVars, ppVars, transVars, muxVars, rdVars,
                   stVars, decVars, valVars, tmVars, hsVars, wVars, pgVars, ecVars, hcVars>>

\* (mutant) a close that leaves the PendingCalls as they are
Pipeline_close_forgets(calls) == calls

\* The end of the stream: every PendingCall still outstanding is failed
\* with "connection closed".
Pipeline_close(calls) ==
    [i \in 1..Len(calls) |->
       IF calls[i].st = "pending"
       THEN [calls[i] EXCEPT !.st = "err", !.val = "connection closed",
                             !.n = @ + 1]
       ELSE calls[i]]

\* the client's dispatcher polls its transport and gets the end of the
\* stream: the peer has closed and no complete line is left to decode
ClientEof ==
    /\ plConn = "open"
    /\ ~plPeerOpen
    /\ LineCodec_decode(s2c).res = "None"
    /\ plCalls' = Pipeline_close(plCalls)
    /\ plInflight' = <<>>
    /\ plConn' = "closed"
    /\ UNCHANGED <<plFwd, c2s, s2c, peerReqs, answered, plFrames, plPeerOpen,
                   plDropped>>
    /\ UNCHANGED <<plainVars, muxcVars, ppVars, transVars, muxVars, rdVars,
                   stVars, decVars, valVars, tmVars, hsVars, wVars, pgVars, ecVars, hcVars>>

\* (mutant) a drop that takes the call out of the queue
Pipeline_drop_retracts(inflight, idx) == Remove(inflight, idx)

\* Dropping the future of an in-flight call: the queue of PendingCalls is
\* as before, the request stays on the wire.
Pipeline_drop(inflight, idx) == inflight

\* the caller drops the future of a call that is still pending
ClientDrop ==
    \E idx \in 1..Len(plCalls) :
        /\ plConn = "open"
        /\ plCalls[idx].st = "pending"
        /\ idx \notin plDropped
        /\ plDropped' = plDropped \cup {idx}
        /\ plInflight' = Pipeline_drop(plInflight, idx)
        /\ UNCHANGED <<plCalls, plFwd, c2s, s2c, peerReqs, answered,
                       plFrames, plConn, plPeerOpen>>
        /\ UNCHANGED <<plainVars, muxcVars, ppVars, transVars, muxVars,
                       rdVars, stVars, decVars, valVars, tmVars, hsVars, wVars, pgVars, ecVars, hcVars>>

NextPipe ==
    \/ ClientCall \/ PeerRead \/ PeerRespond \/ ClientRecv
    \/ PeerClose \/ ClientEof \/ ClientDrop

(***************************************************************************)
(* Validate<T> around an arbitrary inner service T (simple/src/lib.rs,     *)
(* the same text in multiplexed/src/lib.rs): the inner service answers a   *)
(* call with any text, or with an error.                                   *)
(***************************************************************************)
\* What an inner service's future resolves to: Ok(text) or Err(e).
InnerResults ==
    {[ok |-> TRUE, val |-> t] : t \in Texts(MaxText)}
    \cup {[ok |-> FALSE, val |-> <<>>]}

NoResult == [ok |-> FALSE, val |-> <<>>]

\* The future Validate::call returns, given what the inner future resolved
\* to: and_then runs the closure on Ok and passes an Err through.
Validate_future(res) ==
    IF res.ok THEN [st |-> Validate_response(res.val).st,
                    err |-> IF Validate_response(res.val).st = "ok"
                            THEN "none" ELSE "InvalidInput",
                    val |-> IF Validate_response(res.val).st = "ok"
                            THEN Validate_response(res.val).val ELSE <<>>]
    ELSE [st |-> "err", err |-> "inner", val |-> <<>>]

ValidateInit ==
    /\ vState = "idle"
    /\ vLast = [op |-> "new", req |-> <<>>, fwd |-> <<>>, inner |-> NoResult,
                out |-> [st |-> "none", err |-> "none", val |-> <<>>]]

\* validate.call(req)
VCall ==
    \E req \in Texts(MaxText) :
        /\ vState = "idle"
        /\ IF Validate_call(req) = "InvalidInput"
           THEN /\ vState' = "idle"
                /\ vLast' = [op |-> "call", req |-> req, fwd |-> <<>>,
                             inner |-> NoResult,
                             out |-> [st |-> "err", err |-> "InvalidInput",
                                      val |-> <<>>]]
           ELSE /\ vState' = "waiting"         \* self.inner.call(req)
                /\ vLast' = [op |-> "call", req |-> req, fwd |-> <<req>>,
                             inner |-> NoResult,
                             out |-> [st |-> "pending", err |-> "none",
                                      val |-> <<>>]]
        /\ UNCHANGED <<plainVars, muxcVars, ppVars, transVars, pipeVars,
                       muxVars, rdVars, stVars, decVars, tmVars, hsVars, wVars, pgVars, ecVars, hcVars>>

\* the inner service's future resolves
VInnerDone ==
    \E res \in InnerResults :
        /\ vState = "waiting"
        /\ vState' = "idle"
        /\ vLast' = [vLast EXCEPT !.op = "done", !.inner = res,
                                  !.out = Validate_future(res)]
        /\ UNCHANGED <<plainVars, muxcVars, ppVars, transVars, pipeVars,
                       muxVars, rdVars, stVars, decVars, tmVars, hsVars, wVars, pgVars, ecVars, hcVars>>

NextValidate == VCall \/ VInnerDone

(***************************************************************************)
(* A client of the multiplexed crate:                                      *)
(* Client { inner: Validate<ClientService<TcpStream, LineProto>> } with    *)
(* tokio-proto's multiplex ClientService, modelled from section 4.3 of the *)
(* specification: every forwarded request gets a RequestId, a map holds    *)
(* the pending call under that id, and an inbound frame resolves the entry *)
(* with the frame's id.  Validate is the same text as in the simple crate  *)
(* (multiplexed/src/lib.rs 107-134).  The transport is                     *)
(* Framed<T, LineCodec> with the multiplexed LineCodec.                    *)
(***************************************************************************)
\* The RequestId of the n-th forwarded request: 1, 2, ...
IdOf(n) == U64(0, n)

\* (mutant) a dispatcher that ignores the id and takes the oldest entry
Multiplex_dispatch_oldest(pending, id) ==
    {e \in pending : \A f \in pending : e.call <= f.call}

\* (mutant) a dispatcher that gives a frame with an unknown id to the
\* oldest entry
Multiplex_dispatch_fallback(pending, id) ==
    IF \E e \in pending : e.id = id
    THEN {e \in pending : e.id = id}
    ELSE {e \in pending : \A f \in pending : e.call <= f.call}

\* The multiplex discipline: the entries an inbound frame with RequestId id
\* resolves are the ones stored under that id.
Multiplex_dispatch(pending, id) == {e \in pending : e.id = id}

\* The multiplex client's ClientService::call: the request gets the next
\* RequestId, the call is stored under it, the frame is written.
Multiplex_call(idx, req) ==
    LET id == IdOf(Len(mxFwd) + 1)
    IN  /\ mxFwd' = Append(mxFwd, idx)
        /\ mxPending' = mxPending \cup {[id |-> id, call |-> idx]}
        /\ mx_c2s' = MuxLineCodec_encode(id, req, mx_c2s)

MuxInit ==
    /\ mxCalls = <<>>
    /\ mxFwd = <<>>
    /\ mxPending = {}
    /\ mx_c2s = <<>>
    /\ mx_s2c = <<>>
    /\ mxPeerReqs = <<>>
    /\ mxAnswered = <<>>
    /\ mxFrames = <<>>
    /\ mxResolved = <<>>
    /\ mxConn = "open"

\* Client::call(req), which is Validate::call(req)
MuxCall ==
    \E req \in CallTexts :
        LET idx == Len(mxCalls) + 1
        IN  /\ mxConn = "open"
            /\ Len(mxCalls) < MaxCalls
            /\ IF Validate_call(req) = "InvalidInput"
               THEN /\ mxCalls' = Append(mxCalls,
                          [req |-> req, st |-> "err", val |-> "InvalidInput"])
                    /\ UNCHANGED <<mxFwd, mxPending, mx_c2s>>
               ELSE /\ mxCalls' = Append(mxCalls,
                          [req |-> req, st |-> "pending", val |-> <<>>])
                    /\ Multiplex_call(idx, req)
            /\ UNCHANGED <<mx_s2c, mxPeerReqs, mxAnswered, mxFrames,
                           mxResolved, mxConn>>
            /\ UNCHANGED <<plainVars, muxcVars, ppVars, transVars, pipeVars, rdVars, stVars, decVars, valVars, tmVars, hsVars, wVars, pgVars, ecVars, hcVars>>

\* the peer reads one request frame
MuxPeerRead ==
    LET d == MuxLineCodec_decode(mx_c2s)
    IN  /\ d.res = "Some"
        /\ mx_c2s' = d.buf
        /\ mxPeerReqs' = Append(mxPeerReqs, [id |-> d.id, text |-> d.text])
        /\ UNCHANGED <<mxCalls, mxFwd, mxPending, mx_s2c, mxAnswered,
                       mxFrames, mxResolved, mxConn>>
        /\ UNCHANGED <<plainVars, muxcVars, ppVars, transVars, pipeVars, rdVars, stVars, decVars, valVars, tmVars, hsVars, wVars, pgVars, ecVars, hcVars>>

\* the peer writes the response to any request it has read and not
\* answered, under that request's id
MuxPeerRespond ==
    \E k \in 1..Len(mxPeerReqs) :
        /\ \A j \in 1..Len(mxAnswered) : mxAnswered[j] # k
        /\ mx_s2c' = MuxLineCodec_encode(mxPeerReqs[k].id,
                         PeerResponse(mxPeerReqs[k].text), mx_s2c)
        /\ mxAnswered' = Append(mxAnswered, k)
        /\ UNCHANGED <<mxCalls, mxFwd, mxPending, mx_c2s, mxPeerReqs,
                       mxFrames, mxResolved, mxConn>>
        /\ UNCHANGED <<plainVars, muxcVars, ppVars, transVars, pipeVars, rdVars, stVars, decVars, valVars, tmVars, hsVars, wVars, pgVars, ecVars, hcVars>>

\* The frames a misbehaving peer may add: a second response to a request it
\* has answered (a duplicate id), or a response under id 0, which no
\* request carried (a stale id).
StrayFrames ==
    {[id |-> mxPeerReqs[k].id, text |-> PeerResponse(mxPeerReqs[k].text)] :
        k \in {j \in 1..Len(mxPeerReqs) :
                 \E a \in 1..Len(mxAnswered) : mxAnswered[a] = j}}
    \cup {[id |-> IdOf(0), text |-> <<114>>]}

\* the peer writes one such frame, once; mxAnswered records it as 0
MuxPeerStray ==
    \E f \in StrayFrames :
        /\ \A j \in 1..Len(mxAnswered) : mxAnswered[j] # 0
        /\ mx_s2c' = MuxLineCodec_encode(f.id, f.text, mx_s2c)
        /\ mxAnswered' = Append(mxAnswered, 0)
        /\ UNCHANGED <<mxCalls, mxFwd, mxPending, mx_c2s, mxPeerReqs,
                       mxFrames, mxResolved, mxConn>>
        /\ UNCHANGED <<plainVars, muxcVars, ppVars, transVars, pipeVars, rdVars, stVars, decVars, valVars, tmVars, hsVars, wVars, pgVars, ecVars, hcVars>>

\* the client's dispatcher polls its transport and gets a frame
MuxRecv ==
    LET d   == MuxLineCodec_decode(mx_s2c)
        hit == Multiplex_dispatch(mxPending, d.id)
    IN  /\ mxConn = "open"
        /\ d.res # "None"
        /\ mx_s2c' = d.buf
        /\ IF d.res = "Some" /\ hit # {}
           THEN LET r == Validate_response(d.text)
                IN  /\ mxCalls' = [i \in 1..Len(mxCalls) |->
                          IF \E e \in hit : e.call = i
                          THEN [mxCalls[i] EXCEPT !.st = r.st, !.val = r.val]
                          ELSE mxCalls[i]]
                    /\ mxPending' = mxPending \ hit
                    /\ mxFrames' = Append(mxFrames,
                                          [id |-> d.id, text |-> d.text])
                    /\ mxResolved' = Append(mxResolved,
                                            (CHOOSE e \in hit : TRUE).call)
                    /\ mxConn' = mxConn
           ELSE /\ mxCalls' = [i \in 1..Len(mxCalls) |->
                                 IF mxCalls[i].st = "pending"
                                 THEN [mxCalls[i] EXCEPT
                                         !.st = "err", !.val = "Connection"]
                                 ELSE mxCalls[i]]
                /\ mxPending' = {}
                /\ mxFrames' = mxFrames
                /\ mxResolved' = mxResolved
                /\ mxConn' = "failed"
        /\ UNCHANGED <<mxFwd, mx_c2s, mxPeerReqs, mxAnswered>>
        /\ UNCHANGED <<plainVars, muxcVars, ppVars, transVars, pipeVars, rdVars, stVars, decVars, valVars, tmVars, hsVars, wVars, pgVars, ecVars, hcVars>>

NextMux ==
    MuxCall \/ MuxPeerRead \/ MuxPeerRespond \/ MuxPeerStray \/ MuxRecv

(***************************************************************************)
(* The echo service of examples/echo_server_with_timeout.rs behind the     *)
(* Timeout middleware.  The inner service sleeps a random number of        *)
(* milliseconds below SleepRange and then echoes the request (or fails,    *)
(* when the timer fails); Timeout, of the tokio-middleware crate, is       *)
(* modelled from section 4.6 of the specification: a race between the      *)
(* inner call and a timer of TimeoutMs.                                    *)
(***************************************************************************)
\* Duration::from_millis(200)
TimeoutMs == 200

\* rng.next_u64() % 500
SleepRange == 500

\* The sleeps tried: the shortest and the longest, and the ones next to the
\* timeout.
SleepMs ==
    {m \in {0, TimeoutMs - 1, TimeoutMs, TimeoutMs + 1, SleepRange - 1} :
        m < SleepRange}

TmTexts == {<<97>>, <<98>>}

\* What the inner service's future resolves to for msg: Ok(msg), or the
\* error the sleep's failure is mapped to.
Echo_results(msg) == {[ok |-> TRUE, val |-> msg], [ok |-> FALSE, val |-> <<>>]}

\* (mutant) a Timeout that hands a late inner result to the caller too
Timeout_onInner_deliversLate(c, res) ==
    [c       |-> [c EXCEPT !.inner = "done", !.res = res,
                           !.out = IF @ = "none" THEN "inner" ELSE @],
     deliver |-> <<[kind |-> "inner", res |-> res]>>,
     discard |-> <<>>]

\* Timeout: the inner future resolves.  While the race is on, its result
\* is the outcome; after the timeout it is dropped.
Timeout_onInner(c, res) ==
    IF c.out = "none"
    THEN [c       |-> [c EXCEPT !.inner = "done", !.res = res,
                                !.out = "inner"],
          deliver |-> <<[kind |-> "inner", res |-> res]>>,
          discard |-> <<>>]
    ELSE [c       |-> [c EXCEPT !.inner = "done", !.res = res],
          deliver |-> <<>>,
          discard |-> <<res>>]

\* Timeout: the timer fires while the race is on; the inner call is left
\* running.
Timeout_onTimer(c) == [c EXCEPT !.out = "timeout"]

TimeoutInit ==
    /\ tmCalls = <<>>
    /\ tmDelivered = <<>>
    /\ tmDiscarded = <<>>

\* timeout.call(msg): the inner service is called and draws its sleep
TmCall ==
    \E msg \in TmTexts, ms \in SleepMs :
        /\ Len(tmCalls) < MaxTmCalls
        /\ tmCalls' = Append(tmCalls,
               [req |-> msg, ms |-> ms, inner |-> "running",
                res |-> NoResult, out |-> "none"])
        /\ UNCHANGED <<tmDelivered, tmDiscarded>>
        /\ UNCHANGED <<plainVars, muxcVars, ppVars, transVars, pipeVars, muxVars, rdVars, stVars, decVars, valVars, hsVars, wVars, pgVars, ecVars, hcVars>>

\* the inner future of call i resolves, ms after the call; that happens
\* during the race only if the timer has not fired before
TmInnerDone ==
    \E i \in 1..Len(tmCalls) :
        \E res \in Echo_results(tmCalls[i].req) :
            LET r == Timeout_onInner(tmCalls[i], res)
            IN  /\ tmCalls[i].inner = "running"
                /\ tmCalls[i].out = "none" => tmCalls[i].ms <= TimeoutMs
                /\ tmCalls' = [tmCalls EXCEPT ![i] = r.c]
                /\ tmDelivered' = tmDelivered \o
                       [k \in 1..Len(r.deliver) |->
                           [call |-> i, kind |-> r.deliver[k].kind,
                            res |-> r.deliver[k].res]]
                /\ tmDiscarded' = tmDiscarded \o
                       [k \in 1..Len(r.discard) |->
                           [call |-> i, res |-> r.discard[k]]]
                /\ UNCHANGED <<plainVars, muxcVars, ppVars, transVars, pipeVars, muxVars, rdVars, stVars, decVars, valVars, hsVars, wVars, pgVars, ecVars, hcVars>>

\* the timer of call i fires, TimeoutMs after the call; that happens during
\* the race only if the inner future has not resolved before
TmExpire ==
    \E i \in 1..Len(tmCalls) :
        /\ tmCalls[i].out = "none"
        /\ tmCalls[i].ms >= TimeoutMs
        /\ tmCalls' = [tmCalls EXCEPT ![i] = Timeout_onTimer(tmCalls[i])]
        /\ tmDelivered' = Append(tmDelivered,
               [call |-> i, kind |-> "timeout", res |-> NoResult])
        /\ UNCHANGED tmDiscarded
        /\ UNCHANGED <<plainVars, muxcVars, ppVars, transVars, pipeVars, muxVars, rdVars, stVars, decVars, valVars, hsVars, wVars, pgVars, ecVars, hcVars>>

NextTimeout == TmCall \/ TmInnerDone \/ TmExpire

(***************************************************************************)
(* The server side of the handshake: ServerLineProto::bind_transport of    *)
(* simple/examples/handshake.rs, over Framed<T, line::LineCodec>.  The     *)
(* bytes arrive in chunks; Framed decodes the buffer with LineCodec.       *)
(***************************************************************************)
\* "You ready?"
YouReady == <<89, 111, 117, 32, 114, 101, 97, 100, 121, 63>>

\* "Bring it!"
BringIt == <<66, 114, 105, 110, 103, 32, 105, 116, 33>>

\* The chunks a peer sends: the handshake text, a line end, a letter, and
\* a byte no UTF-8 text contains.
HsChunks == {YouReady, <<NL>>, <<97>>, <<255>>}

NoFirst == [kind |-> "none", text |-> <<>>]

\* What transport.into_future() can resolve to with buf buffered: the first
\* line (Some(line)), the codec's error, the end of the stream (None), or
\* nothing yet.  At the end of the stream with an unfinished line buffered
\* it is Framed that decides between None and an error.
Framed_first(buf, eof) ==
    LET d == LineCodec_decode(buf)
    IN  IF d.res = "Some" THEN {[kind |-> "line", text |-> d.text]}
        ELSE IF d.res = "Err" THEN {[kind |-> "err", text |-> <<>>]}
        ELSE IF ~eof THEN {}
        ELSE IF buf = <<>> THEN {[kind |-> "eof", text |-> <<>>]}
        ELSE {[kind |-> "eof", text |-> <<>>],
              [kind |-> "eoferr", text |-> <<>>]}

\* (mutant) a handshake that accepts whatever line comes first
bind_transport_anyLine(first) ==
    IF first.kind \in {"err", "eoferr"} THEN "transport"
    ELSE IF first.kind = "line" THEN "send"
    ELSE "invalid handshake"

\* bind_transport's closures on what into_future resolved to: map_err keeps
\* the transport's error; and_then matches the line: "send" the
\* acknowledgement, or fail with "invalid handshake".
bind_transport(first) ==
    IF first.kind \in {"err", "eoferr"} THEN "transport"     \* map_err
    ELSE IF first.kind = "line" /\ first.text = YouReady THEN "send"
    ELSE "invalid handshake"                                 \* _ =>

HandshakeInit ==
    /\ hsIn = <<>>
    /\ hsCount = 0
    /\ hsEof = FALSE
    /\ hsState = "waiting"
    /\ hsErr = "none"
    /\ hsOut = <<>>
    /\ hsFirst = NoFirst
    /\ hsReqs = <<>>

\* a chunk of bytes arrives from the peer
HsArrive ==
    \E c \in HsChunks :
        /\ ~hsEof
        /\ hsState \notin {"failed", "closed"}
        /\ hsCount < MaxHs
        /\ hsIn' = hsIn \o c
        /\ hsCount' = hsCount + 1
        /\ UNCHANGED <<hsEof, hsState, hsErr, hsOut, hsFirst, hsReqs>>
        /\ UNCHANGED <<plainVars, muxcVars, ppVars, transVars, pipeVars, muxVars, rdVars, stVars, decVars, valVars, tmVars, wVars, pgVars, ecVars, hcVars>>

\* the peer closes its side
HsClose ==
    /\ ~hsEof
    /\ hsState \notin {"failed", "closed"}
    /\ hsEof' = TRUE
    /\ UNCHANGED <<hsIn, hsCount, hsState, hsErr, hsOut, hsFirst, hsReqs>>
    /\ UNCHANGED <<plainVars, muxcVars, ppVars, transVars, pipeVars, muxVars, rdVars, stVars, decVars, valVars, tmVars, wVars, pgVars, ecVars, hcVars>>

\* the handshake future is polled and into_future has resolved
HsFirst ==
    \E first \in Framed_first(hsIn, hsEof) :
        LET r == bind_transport(first)
        IN  /\ hsState = "waiting"
            /\ hsFirst' = first
            /\ hsIn' = LineCodec_decode(hsIn).buf
            /\ hsState' = IF r = "send" THEN "sending" ELSE "failed"
            /\ hsErr' = IF r = "send" THEN "none" ELSE r
            /\ UNCHANGED <<hsCount, hsEof, hsOut, hsReqs>>
            /\ UNCHANGED <<plainVars, muxcVars, ppVars, transVars, pipeVars, muxVars, rdVars, stVars, decVars, valVars, tmVars, wVars, pgVars, ecVars, hcVars>>

\* transport.send("Bring it!") completes: the line is written and the
\* future resolves to the transport, which the dispatcher takes
HsSent ==
    /\ hsState = "sending"
    /\ hsOut' = LineCodec_encode(BringIt, hsOut)
    /\ hsState' = "bound"
    /\ UNCHANGED <<hsIn, hsCount, hsEof, hsErr, hsFirst, hsReqs>>
    /\ UNCHANGED <<plainVars, muxcVars, ppVars, transVars, pipeVars, muxVars, rdVars, stVars, decVars, valVars, tmVars, wVars, pgVars, ecVars, hcVars>>

\* transport.send("Bring it!") fails after writing a part of the line
HsSendFail ==
    \E n \in 0..Len(BringIt) :
        /\ hsState = "sending"
        /\ hsOut' = SubSeq(LineCodec_encode(BringIt, hsOut), 1, n)
        /\ hsState' = "failed"
        /\ hsErr' = "io"
        /\ UNCHANGED <<hsIn, hsCount, hsEof, hsFirst, hsReqs>>
        /\ UNCHANGED <<plainVars, muxcVars, ppVars, transVars, pipeVars, muxVars, rdVars, stVars, decVars, valVars, tmVars, wVars, pgVars, ecVars, hcVars>>

\* the dispatcher polls the transport it was given: a line is a request for
\* the Service
HsDispatch ==
    LET d == LineCodec_decode(hsIn)
    IN  /\ hsState = "bound"
        /\ d.res # "None" \/ hsEof
        /\ hsIn' = d.buf
        /\ hsReqs' = IF d.res = "Some" THEN Append(hsReqs, d.text)
                     ELSE hsReqs
        /\ hsState' = IF d.res = "Some" THEN "bound"
                      ELSE IF d.res = "Err" THEN "failed"
                      ELSE "closed"
        /\ hsErr' = IF d.res = "Err" THEN "transport" ELSE hsErr
        /\ UNCHANGED <<hsCount, hsEof, hsOut, hsFirst>>
        /\ UNCHANGED <<plainVars, muxcVars, ppVars, transVars, pipeVars, muxVars, rdVars, stVars, decVars, valVars, tmVars, wVars, pgVars, ecVars, hcVars>>

NextHandshake ==
    HsArrive \/ HsClose \/ HsFirst \/ HsSent \/ HsSendFail \/ HsDispatch

(***************************************************************************)
(* serve and Client::connect of the simple and multiplexed crates: what    *)
(* they wrap in Validate, and the frames a connection made by them         *)
(* carries.  The application's service answers with any text, a text with  *)
(* '\n' included, or with an error.                                        *)
(***************************************************************************)
\* (mutant) serve that hands the application's factory to the server as is
serve_unwrapped(new_service) == [wrap |-> FALSE, inner |-> new_service]

\* serve: let new_service = Validate { inner: new_service }
serve(new_service) == [wrap |-> TRUE, inner |-> new_service]

\* The factory's new_service(): Validate<T> makes the inner instance and
\* wraps it; the application's own factory makes a bare instance.
new_service(factory) ==
    IF factory.wrap THEN [made |-> TRUE, wrap |-> TRUE]    \* Validate<T>
    ELSE [made |-> TRUE, wrap |-> FALSE]

\* Client::connect: Client { inner: Validate { inner: client_service } }
Client_connect == [made |-> TRUE, wrap |-> TRUE]

NoInstance == [made |-> FALSE, wrap |-> FALSE]

\* What the application's service resolves a request to.
AppResults(req) ==
    {[ok |-> TRUE, val |-> PeerResponse(req)],
     [ok |-> TRUE, val |-> <<114, NL, 98>>],
     [ok |-> FALSE, val |-> <<>>]}

\* instance.call(req) on the connection's service instance, the application
\* resolving to app: through Validate when the instance is wrapped.
Instance_call(svc, req, app) ==
    IF svc.wrap
    THEN IF Validate_call(req) = "InvalidInput"
         THEN [st |-> "err", err |-> "InvalidInput", val |-> <<>>]
         ELSE Validate_future(app)
    ELSE IF app.ok THEN [st |-> "ok", err |-> "none", val |-> app.val]
         ELSE [st |-> "err", err |-> "inner", val |-> <<>>]

\* The codec of the connection's transport encoding one frame.
Wire_encode(mode, id, msg) ==
    IF mode = "simple" THEN LineCodec_encode(msg, <<>>)
    ELSE MuxLineCodec_encode(id, msg, <<>>)

\* The codec of the connection's transport decoding the next frame.
Wire_decode(mode, buf) ==
    IF mode = "simple"
    THEN LET d == LineCodec_decode(buf)
         IN  [res |-> d.res, id |-> U64(0, 0), text |-> d.text,
              buf |-> d.buf]
    ELSE MuxLineCodec_decode(buf)

WireInit ==
    /\ wMode = "none"
    /\ wService = NoInstance
    /\ wClient = NoInstance
    /\ wNextId = 0
    /\ wCalls = 0
    /\ wHanded = <<>>
    /\ wC2S = <<>>
    /\ wServed = 0
    /\ wReturned = <<>>
    /\ wFrames = <<>>

\* serve(addr, new_service) accepts the connection Client::connect makes;
\* the multiplexed client's next RequestId is 1, or 10 on a client that
\* has used nine.
WConnect ==
    \E mode \in {"simple", "multiplexed"}, first \in {1, 10} :
        /\ wMode = "none"
        /\ wMode' = mode
        /\ wService' = new_service(serve("application"))
        /\ wClient' = Client_connect
        /\ wNextId' = first
        /\ UNCHANGED <<wCalls, wHanded, wC2S, wServed, wReturned, wFrames>>
        /\ UNCHANGED <<plainVars, muxcVars, ppVars, transVars, pipeVars, muxVars, rdVars, stVars, decVars, valVars, tmVars, hsVars, pgVars, ecVars, hcVars>>

\* client.call(req): through Validate to the client service, which encodes
\* the request on its transport
WClientCall ==
    \E req \in CallTexts :
        /\ wMode # "none"
        /\ wCalls < MaxWire
        /\ wCalls' = wCalls + 1
        /\ IF wClient.wrap /\ Validate_call(req) = "InvalidInput"
           THEN UNCHANGED <<wHanded, wC2S, wFrames, wNextId>>
           ELSE LET f == Wire_encode(wMode, IdOf(wNextId), req)
                IN  /\ wHanded' = Append(wHanded, req)
                    /\ wC2S' = wC2S \o f
                    /\ wFrames' = Append(wFrames, f)
                    /\ wNextId' = wNextId + 1
        /\ UNCHANGED <<wMode, wService, wClient, wServed, wReturned>>
        /\ UNCHANGED <<plainVars, muxcVars, ppVars, transVars, pipeVars, muxVars, rdVars, stVars, decVars, valVars, tmVars, hsVars, pgVars, ecVars, hcVars>>

\* the server decodes a request, calls the connection's service instance
\* and encodes the response the instance returned with Ok
WServe ==
    LET d == Wire_decode(wMode, wC2S)
    IN  \E app \in AppResults(d.text) :
            LET out == Instance_call(wService, d.text, app)
            IN  /\ wMode # "none"
                /\ d.res = "Some"
                /\ wC2S' = d.buf
                /\ wServed' = wServed + 1
                /\ IF out.st = "ok"
                   THEN /\ wReturned' = Append(wReturned, out.val)
                        /\ wFrames' = Append(wFrames,
                               Wire_encode(wMode, d.id, out.val))
                   ELSE UNCHANGED <<wReturned, wFrames>>
                /\ UNCHANGED <<wMode, wService, wClient, wNextId, wCalls,
                               wHanded>>
                /\ UNCHANGED <<plainVars, muxcVars, ppVars, transVars, pipeVars, muxVars, rdVars, stVars, decVars, valVars, tmVars, hsVars, pgVars, ecVars, hcVars>>

NextWire == WConnect \/ WClientCall \/ WServe

(***************************************************************************)
(* Specifications.                                                         *)
(***************************************************************************)
(***************************************************************************)
(* A pipelined client of the simple crate against the server of            *)
(* simple/examples/ping_pong.rs: Client::call and Client::ping on one      *)
(* connection, the server's transport being PingPong<Framed<T, LineCodec>> *)
(* and its service the echo of main.  The two dispatchers are tokio-proto's *)
(* and are modelled from section 4.3 of the specification: the client      *)
(* resolves the oldest PendingCall with each inbound frame, the server     *)
(* hands each request to the Service and writes the responses in the order *)
(* of the requests, each when its future has completed.  The upstream of   *)
(* PingPong is a Framed whose sink accepts what it is sent.                *)
(***************************************************************************)
\* The requests of the calls: "a" and "b".
PgTexts == {<<97>>, <<98>>}

\* The frames Framed<T, LineCodec> yields from the bytes that have arrived.
RECURSIVE Framed_items(_)
Framed_items(buf) ==
    LET d == LineCodec_decode(buf)
    IN  IF d.res = "None" THEN <<>>
        ELSE <<(IF d.res = "Some" THEN Msg(d.text) ELSE ErrItem)>>
             \o Framed_items(d.buf)

\* The bytes left when Framed has yielded n frames.
RECURSIVE Framed_rest(_, _)
Framed_rest(buf, n) ==
    IF n = 0 THEN buf ELSE Framed_rest(LineCodec_decode(buf).buf, n - 1)

\* The bytes of the frames a Framed sink was sent.
RECURSIVE Framed_sent(_)
Framed_sent(sent) ==
    IF sent = <<>> THEN <<>>
    ELSE LineCodec_encode(Head(sent).text, <<>>) \o Framed_sent(Tail(sent))

\* Client::ping, the and_then closure on the response to "[ping]"
Client_ping(resp) ==
    IF resp # Pong
    THEN [st |-> "err", val |-> resp, err |-> "expected pong"]
    ELSE [st |-> "ok", val |-> resp, err |-> "none"]

\* The service of main: Ok(msg)
PgService(msg) == msg

PingPipeInit ==
    /\ pgCalls = <<>>
    /\ pgC2S = <<>>
    /\ pgS2C = <<>>
    /\ pgInflight = <<>>
    /\ pgServed = <<>>
    /\ pgPongs = 0

\* client.call(req): Validate forwards a request without '\n', a
\* PendingCall is queued and the request is written
PgCall ==
    \E req \in PgTexts :
        /\ Len(pgCalls) < MaxPg
        /\ Validate_call(req) = "inner"
        /\ pgCalls' = Append(pgCalls,
               [kind |-> "call", req |-> req, st |-> "pending",
                val |-> <<>>, err |-> "none"])
        /\ pgC2S' = LineCodec_encode(req, pgC2S)
        /\ UNCHANGED <<pgS2C, pgInflight, pgServed, pgPongs>>
        /\ UNCHANGED <<plainVars, muxcVars, ppVars, transVars, pipeVars, muxVars, rdVars, stVars, decVars, valVars, tmVars, hsVars, wVars, ecVars, hcVars>>

\* client.ping(): self.call("[ping]")
PgPing ==
    /\ Len(pgCalls) < MaxPg
    /\ Validate_call(Ping) = "inner"
    /\ pgCalls' = Append(pgCalls,
           [kind |-> "ping", req |-> Ping, st |-> "pending",
            val |-> <<>>, err |-> "none"])
    /\ pgC2S' = LineCodec_encode(Ping, pgC2S)
    /\ UNCHANGED <<pgS2C, pgInflight, pgServed, pgPongs>>
    /\ UNCHANGED <<plainVars, muxcVars, ppVars, transVars, pipeVars, muxVars, rdVars, stVars, decVars, valVars, tmVars, hsVars, wVars, ecVars, hcVars>>

\* the server's dispatcher polls its transport: PingPong::poll on the
\* frames that have arrived; a request it yields goes to the Service
PgServerPoll ==
    \E o \in PingPong_poll([q |-> Framed_items(pgC2S), hist |-> <<>>,
                            pongs |-> 0, pings |-> 0, sent |-> <<>>,
                            calls |-> 0]) :
        /\ Framed_items(pgC2S) # <<>>
        /\ o.ret # "Err"
        /\ o.st.pongs = 0                  \* the Framed sink accepts
        /\ pgC2S' = Framed_rest(pgC2S, Len(o.st.hist))
        /\ pgS2C' = pgS2C \o Framed_sent(o.st.sent)
        /\ pgPongs' = pgPongs + Len(o.st.sent)
        /\ IF o.ret = "Ready" /\ o.item.kind = "msg"
           THEN /\ pgInflight' = Append(pgInflight,
                                        [req |-> o.item.text, done |-> FALSE])
                /\ pgServed' = Append(pgServed, o.item.text)
           ELSE UNCHANGED <<pgInflight, pgServed>>
        /\ UNCHANGED pgCalls
        /\ UNCHANGED <<plainVars, muxcVars, ppVars, transVars, pipeVars, muxVars, rdVars, stVars, decVars, valVars, tmVars, hsVars, wVars, ecVars, hcVars>>

\* the future of a request in flight completes
PgServiceDone ==
    \E k \in 1..Len(pgInflight) :
        /\ ~pgInflight[k].done
        /\ pgInflight' = [pgInflight EXCEPT ![k].done = TRUE]
        /\ UNCHANGED <<pgCalls, pgC2S, pgS2C, pgServed, pgPongs>>
        /\ UNCHANGED <<plainVars, muxcVars, ppVars, transVars, pipeVars, muxVars, rdVars, stVars, decVars, valVars, tmVars, hsVars, wVars, ecVars, hcVars>>

\* the server's dispatcher writes the response of the oldest request in
\* flight: PingPong::start_send, which no pong owed holds back
PgServerWrite ==
    /\ pgInflight # <<>>
    /\ Head(pgInflight).done
    /\ LET r == start_send([q |-> <<>>, hist |-> <<>>, pongs |-> 0,
                            pings |-> 0, sent |-> <<>>, calls |-> 0],
                           PgService(Head(pgInflight).req), "Ready")
       IN  /\ r.ret = "Ready"
           /\ pgS2C' = pgS2C \o Framed_sent(r.st.sent)
    /\ pgInflight' = Tail(pgInflight)
    /\ UNCHANGED <<pgCalls, pgC2S, pgServed, pgPongs>>
    /\ UNCHANGED <<plainVars, muxcVars, ppVars, transVars, pipeVars, muxVars, rdVars, stVars, decVars, valVars, tmVars, hsVars, wVars, ecVars, hcVars>>

\* The index of the oldest PendingCall, 0 if there is none.
PgOldest ==
    IF \E k \in 1..Len(pgCalls) : pgCalls[k].st = "pending"
    THEN CHOOSE k \in 1..Len(pgCalls) :
            /\ pgCalls[k].st = "pending"
            /\ \A j \in 1..(k - 1) : pgCalls[j].st # "pending"
    ELSE 0

\* the client's dispatcher gets a frame: it resolves the oldest PendingCall
PgClientRecv ==
    LET d   == LineCodec_decode(pgS2C)
        idx == PgOldest
    IN  /\ d.res = "Some"
        /\ idx # 0
        /\ pgS2C' = d.buf
        /\ LET v == Validate_response(d.text)
               r == IF pgCalls[idx].kind = "ping" THEN Client_ping(d.text)
                    ELSE [st |-> "ok", val |-> d.text, err |-> "none"]
           IN  /\ v.st = "ok"
               /\ pgCalls' = [pgCalls EXCEPT
                                ![idx].st = r.st, ![idx].val = r.val,
                                ![idx].err = r.err]
        /\ UNCHANGED <<pgC2S, pgInflight, pgServed, pgPongs>>
        /\ UNCHANGED <<plainVars, muxcVars, ppVars, transVars, pipeVars, muxVars, rdVars, stVars, decVars, valVars, tmVars, hsVars, wVars, ecVars, hcVars>>

NextPingPipe ==
    \/ PgCall \/ PgPing \/ PgServerPoll \/ PgServiceDone
    \/ PgServerWrite \/ PgClientRecv

(***************************************************************************)
(* The echo example, end to end: examples/echo.rs over src/lib.rs.  One    *)
(* connection, a Line transport at each end (read, write and flush as      *)
(* above), the server's service returning its request.  pipeline::Client   *)
(* and pipeline::Server are the dispatchers of the tokio library and are   *)
(* modelled from sections 4.2 and 4.3 of the specification: a frame is     *)
(* written when the transport is writable, a flush is retried after a      *)
(* would-block, read is called when the source signals readiness and again *)
(* after each frame it returned; the client resolves the oldest            *)
(* PendingCall with each inbound frame.  The stream between the two takes  *)
(* the bytes of a write in any number of pieces and does not fail.         *)
(***************************************************************************)
\* "Hello"
Hello == <<72, 101, 108, 108, 111>>

\* The requests of the calls: "Hello" and "a".
EcTexts == {Hello, <<97>>}

EcSides == {"client", "server"}

EcPeer(p) == IF p = "client" THEN "server" ELSE "client"

\* The outcomes of a transport call on a stream that does not fail and
\* that takes at least one byte when it takes any.
EcWorking(outcomes) ==
    {r \in outcomes : r.ret \notin {"Err(io)", "spins", "panic"}}

\* The write side of the transport of side p, with its stream.
EcWriter(p) ==
    [buf |-> ecT[p].buf, pos |-> ecT[p].pos, wire |-> ecNet[EcPeer(p)],
     acc |-> <<>>, ir |-> FALSE, iw |-> TRUE]

\* The read side of the transport of side p, with its stream.
EcReader(p) ==
    [rb |-> ecT[p].rb, net |-> ecNet[p], closed |-> FALSE,
     consumed |-> <<>>]

\* The service of main: Ok(msg)
Echo_service(msg) == msg

EchoInit ==
    /\ ecCalls = <<>>
    /\ ecT = [p \in EcSides |-> [rb |-> <<>>, buf |-> <<>>, pos |-> 0]]
    /\ ecNet = [p \in EcSides |-> <<>>]
    /\ ecOutQ = [p \in EcSides |-> <<>>]
    /\ ecAgain = [p \in EcSides |-> FALSE]
    /\ ecServed = <<>>

\* client.call(req): a PendingCall is queued and the request is handed to
\* the client's dispatcher
EcCall ==
    \E req \in EcTexts :
        /\ Len(ecCalls) < MaxEc
        /\ ecCalls' = Append(ecCalls,
                             [req |-> req, st |-> "pending", val |-> <<>>])
        /\ ecOutQ' = [ecOutQ EXCEPT !["client"] = Append(@, req)]
        /\ UNCHANGED <<ecT, ecNet, ecAgain, ecServed>>
        /\ UNCHANGED <<plainVars, muxcVars, ppVars, transVars, pipeVars, muxVars, rdVars, stVars, decVars, valVars, tmVars, hsVars, wVars, pgVars, hcVars>>

\* the dispatcher of side p writes its next frame: transport.write, when
\* the transport is writable
EcWrite(p) ==
    /\ ecOutQ[p] # <<>>
    /\ ecT[p].pos = Len(ecT[p].buf)
    /\ \E r \in EcWorking(write(EcWriter(p), MessageFrame(Head(ecOutQ[p])))) :
           /\ ecT' = [ecT EXCEPT ![p].buf = r.st.buf, ![p].pos = r.st.pos]
           /\ ecNet' = [ecNet EXCEPT ![EcPeer(p)] = r.st.wire]
    /\ ecOutQ' = [ecOutQ EXCEPT ![p] = Tail(@)]
    /\ UNCHANGED <<ecCalls, ecAgain, ecServed>>
    /\ UNCHANGED <<plainVars, muxcVars, ppVars, transVars, pipeVars, muxVars, rdVars, stVars, decVars, valVars, tmVars, hsVars, wVars, pgVars, hcVars>>

\* the dispatcher of side p retries the flush: transport.flush
EcFlush(p) ==
    /\ ecT[p].pos < Len(ecT[p].buf)
    /\ \E r \in EcWorking(flush(EcWriter(p))) :
           /\ ecT' = [ecT EXCEPT ![p].buf = r.st.buf, ![p].pos = r.st.pos]
           /\ ecNet' = [ecNet EXCEPT ![EcPeer(p)] = r.st.wire]
    /\ UNCHANGED <<ecCalls, ecOutQ, ecAgain, ecServed>>
    /\ UNCHANGED <<plainVars, muxcVars, ppVars, transVars, pipeVars, muxVars, rdVars, stVars, decVars, valVars, tmVars, hsVars, wVars, pgVars, hcVars>>

\* The index of the oldest PendingCall, 0 if there is none.
EcOldest ==
    IF \E k \in 1..Len(ecCalls) : ecCalls[k].st = "pending"
    THEN CHOOSE k \in 1..Len(ecCalls) :
            /\ ecCalls[k].st = "pending"
            /\ \A j \in 1..(k - 1) : ecCalls[j].st # "pending"
    ELSE 0

\* transport.read() on side p, and what the dispatcher does with a frame:
\* the server hands it to the service and queues the response, the client
\* resolves the oldest PendingCall with it
EcPoll(p) ==
    \E r \in EcWorking(read(EcReader(p))) :
        /\ ecT' = [ecT EXCEPT ![p].rb = r.st.rb]
        /\ ecNet' = [ecNet EXCEPT ![p] = r.st.net]
        /\ ecAgain' = [ecAgain EXCEPT ![p] = (r.ret = "Message")]
        /\ IF r.ret = "Message" /\ p = "server"
           THEN /\ ecServed' = Append(ecServed, r.text)
                /\ ecOutQ' = [ecOutQ EXCEPT
                                 ![p] = Append(@, Echo_service(r.text))]
                /\ UNCHANGED ecCalls
           ELSE IF r.ret = "Message" /\ EcOldest # 0
           THEN /\ ecCalls' = [ecCalls EXCEPT ![EcOldest].st = "ok",
                                              ![EcOldest].val = r.text]
                /\ UNCHANGED <<ecOutQ, ecServed>>
           ELSE UNCHANGED <<ecCalls, ecOutQ, ecServed>>
        /\ UNCHANGED <<plainVars, muxcVars, ppVars, transVars, pipeVars, muxVars, rdVars, stVars, decVars, valVars, tmVars, hsVars, wVars, pgVars, hcVars>>

\* The source of side p signals readiness to read, or the last read
\* returned a frame and the dispatcher asks for the next.
EcReadDue(p) == ecNet[p] # <<>> \/ ecAgain[p]

\* the dispatcher of side p reads because a read is due
EcRead(p) == EcReadDue(p) /\ EcPoll(p)

\* the dispatcher of side p reads though nothing signalled it: the task
\* was woken for another reason
EcRepoll(p) == ~EcReadDue(p) /\ EcPoll(p)

NextEcho ==
    \/ EcCall
    \/ \E p \in EcSides : EcWrite(p)
    \/ \E p \in EcSides : EcFlush(p)
    \/ \E p \in EcSides : EcRead(p)
    \/ \E p \in EcSides : EcRepoll(p)

(***************************************************************************)
(* The handshake, client side and end to end:                              *)
(* simple/examples/handshake.rs, ClientLineProto::bind_transport and main. *)
(* The client meets either a ServerLineProto server (bind_transport and    *)
(* the server's dispatcher as above, its service the echo of main) or      *)
(* another peer that sends what it likes.  Once its handshake is done the  *)
(* client is handed to the application, whose calls go through the         *)
(* pipeline client of section 4.3 of the specification.                    *)
(***************************************************************************)
\* "No! Go away!"
NoGoAway == <<78, 111, 33, 32, 71, 111, 32, 97, 119, 97, 121, 33>>

\* The chunks another peer sends: the two handshake replies as lines, a
\* letter, a line end, and a byte no UTF-8 text contains.
HcChunks ==
    {LineCodec_encode(BringIt, <<>>), LineCodec_encode(NoGoAway, <<>>),
     <<97>>, <<NL>>, <<255>>}

\* The requests of the application's calls: "a" and "Bring it!".
HcTexts == {<<97>>, BringIt}

\* (mutant) a client handshake that takes any line for the acknowledgement
Client_bind_transport_anyLine(first) ==
    IF first.kind \in {"err", "eoferr"} THEN "transport"
    ELSE IF first.kind = "line" THEN "Ok"
    ELSE "invalid handshake"

\* ClientLineProto::bind_transport, the closures on what into_future
\* resolved to: map_err keeps the transport's error; and_then matches the
\* line: Ok(transport), or one of the two errors.
Client_bind_transport(first) ==
    IF first.kind \in {"err", "eoferr"} THEN "transport"     \* map_err
    ELSE IF first.kind = "line" /\ first.text = BringIt THEN "Ok"
    ELSE IF first.kind = "line" /\ first.text = NoGoAway
    THEN "server at capacity"
    ELSE "invalid handshake"                                 \* _ =>

HandshakePairInit ==
    /\ hcPeer = "none"
    /\ hcClient = "idle"
    /\ hcErr = "none"
    /\ hcServer = "waiting"
    /\ hcC2S = <<>>
    /\ hcS2C = <<>>
    /\ hcEof = FALSE
    /\ hcCount = 0
    /\ hcWritten = <<>>
    /\ hcCFirst = NoFirst
    /\ hcCalls = <<>>
    /\ hcReqs = <<>>

\* TcpClient::new(ClientLineProto).connect: the connection is made and
\* bind_transport sends the handshake frame
HcConnect ==
    \E peer \in {"server", "other"} :
        /\ hcPeer = "none"
        /\ hcPeer' = peer
        /\ hcClient' = "waiting"
        /\ hcC2S' = LineCodec_encode(YouReady, hcC2S)
        /\ hcWritten' = LineCodec_encode(YouReady, hcWritten)
        /\ UNCHANGED <<hcErr, hcServer, hcS2C, hcEof, hcCount, hcCFirst,
                       hcCalls, hcReqs>>
        /\ UNCHANGED <<plainVars, muxcVars, ppVars, transVars, pipeVars, muxVars, rdVars, stVars, decVars, valVars, tmVars, hsVars, wVars, pgVars, ecVars>>

\* another peer sends a chunk of bytes
HcPeerSend ==
    \E c \in HcChunks :
        /\ hcPeer = "other"
        /\ ~hcEof
        /\ hcCount < MaxHc
        /\ hcS2C' = hcS2C \o c
        /\ hcCount' = hcCount + 1
        /\ UNCHANGED <<hcPeer, hcClient, hcErr, hcServer, hcC2S, hcEof,
                       hcWritten, hcCFirst, hcCalls, hcReqs>>
        /\ UNCHANGED <<plainVars, muxcVars, ppVars, transVars, pipeVars, muxVars, rdVars, stVars, decVars, valVars, tmVars, hsVars, wVars, pgVars, ecVars>>

\* another peer closes its side
HcPeerClose ==
    /\ hcPeer = "other"
    /\ ~hcEof
    /\ hcEof' = TRUE
    /\ UNCHANGED <<hcPeer, hcClient, hcErr, hcServer, hcC2S, hcS2C, hcCount,
                   hcWritten, hcCFirst, hcCalls, hcReqs>>
    /\ UNCHANGED <<plainVars, muxcVars, ppVars, transVars, pipeVars, muxVars, rdVars, stVars, decVars, valVars, tmVars, hsVars, wVars, pgVars, ecVars>>

\* the server's handshake future is polled and into_future has resolved
HcServerFirst ==
    \E first \in Framed_first(hcC2S, FALSE) :
        /\ hcPeer = "server"
        /\ hcServer = "waiting"
        /\ hcC2S' = LineCodec_decode(hcC2S).buf
        /\ hcServer' = IF bind_transport(first) = "send" THEN "sending"
                       ELSE "failed"
        /\ UNCHANGED <<hcPeer, hcClient, hcErr, hcS2C, hcEof, hcCount,
                       hcWritten, hcCFirst, hcCalls, hcReqs>>
        /\ UNCHANGED <<plainVars, muxcVars, ppVars, transVars, pipeVars, muxVars, rdVars, stVars, decVars, valVars, tmVars, hsVars, wVars, pgVars, ecVars>>

\* the server's transport.send("Bring it!") completes
HcServerSent ==
    /\ hcPeer = "server"
    /\ hcServer = "sending"
    /\ hcS2C' = LineCodec_encode(BringIt, hcS2C)
    /\ hcServer' = "bound"
    /\ UNCHANGED <<hcPeer, hcClient, hcErr, hcC2S, hcEof, hcCount,
                   hcWritten, hcCFirst, hcCalls, hcReqs>>
    /\ UNCHANGED <<plainVars, muxcVars, ppVars, transVars, pipeVars, muxVars, rdVars, stVars, decVars, valVars, tmVars, hsVars, wVars, pgVars, ecVars>>

\* the client's handshake future is polled and into_future has resolved
HcClientFirst ==
    \E first \in Framed_first(hcS2C, hcEof) :
        LET r == Client_bind_transport(first)
        IN  /\ hcClient = "waiting"
            /\ hcCFirst' = first
            /\ hcS2C' = LineCodec_decode(hcS2C).buf
            /\ hcClient' = IF r = "Ok" THEN "bound" ELSE "failed"
            /\ hcErr' = IF r = "Ok" THEN "none" ELSE r
            /\ UNCHANGED <<hcPeer, hcServer, hcC2S, hcEof, hcCount,
                           hcWritten, hcCalls, hcReqs>>
            /\ UNCHANGED <<plainVars, muxcVars, ppVars, transVars, pipeVars, muxVars, rdVars, stVars, decVars, valVars, tmVars, hsVars, wVars, pgVars, ecVars>>

\* client.call(req) on the client the connect future resolved to
HcCall ==
    \E req \in HcTexts :
        /\ hcClient = "bound"
        /\ Len(hcCalls) < MaxHcCalls
        /\ Validate_call(req) = "inner"
        /\ hcCalls' = Append(hcCalls,
                             [req |-> req, st |-> "pending", val |-> <<>>])
        /\ hcC2S' = LineCodec_encode(req, hcC2S)
        /\ hcWritten' = LineCodec_encode(req, hcWritten)
        /\ UNCHANGED <<hcPeer, hcClient, hcErr, hcServer, hcS2C, hcEof,
                       hcCount, hcCFirst, hcReqs>>
        /\ UNCHANGED <<plainVars, muxcVars, ppVars, transVars, pipeVars, muxVars, rdVars, stVars, decVars, valVars, tmVars, hsVars, wVars, pgVars, ecVars>>

\* the server's dispatcher reads a request on the transport it was given,
\* hands it to the Service (the echo of main) and writes the response
HcServerDispatch ==
    LET d == LineCodec_decode(hcC2S)
    IN  /\ hcPeer = "server"
        /\ hcServer = "bound"
        /\ d.res = "Some"
        /\ hcC2S' = d.buf
        /\ hcReqs' = Append(hcReqs, d.text)
        /\ hcS2C' = LineCodec_encode(d.text, hcS2C)
        /\ UNCHANGED <<hcPeer, hcClient, hcErr, hcServer, hcEof, hcCount,
                       hcWritten, hcCFirst, hcCalls>>
        /\ UNCHANGED <<plainVars, muxcVars, ppVars, transVars, pipeVars, muxVars, rdVars, stVars, decVars, valVars, tmVars, hsVars, wVars, pgVars, ecVars>>

\* The index of the oldest PendingCall, 0 if there is none.
HcOldest ==
    IF \E k \in 1..Len(hcCalls) : hcCalls[k].st = "pending"
    THEN CHOOSE k \in 1..Len(hcCalls) :
            /\ hcCalls[k].st = "pending"
            /\ \A j \in 1..(k - 1) : hcCalls[j].st # "pending"
    ELSE 0

\* the client's dispatcher gets a frame: it resolves the oldest PendingCall
HcClientRecv ==
    LET d == LineCodec_decode(hcS2C)
    IN  /\ hcClient = "bound"
        /\ d.res = "Some"
        /\ HcOldest # 0
        /\ hcS2C' = d.buf
        /\ hcCalls' = [hcCalls EXCEPT
                         ![HcOldest].st = Validate_response(d.text).st,
                         ![HcOldest].val = d.text]
        /\ UNCHANGED <<hcPeer, hcClient, hcErr, hcServer, hcC2S, hcEof,
                       hcCount, hcWritten, hcCFirst, hcReqs>>
        /\ UNCHANGED <<plainVars, muxcVars, ppVars, transVars, pipeVars, muxVars, rdVars, stVars, decVars, valVars, tmVars, hsVars, wVars, pgVars, ecVars>>

NextHandshakePair ==
    \/ HcConnect \/ HcPeerSend \/ HcPeerClose
    \/ HcServerFirst \/ HcServerSent \/ HcClientFirst
    \/ HcCall \/ HcServerDispatch \/ HcClientRecv

Init == PlainInit /\ MuxcInit /\ PPInit /\ TransInit /\ PipeInit
        /\ MuxInit /\ ReadInit /\ StreamInit
        /\ DecInit /\ ValidateInit /\ TimeoutInit /\ HandshakeInit
        /\ WireInit /\ PingPipeInit /\ EchoInit /\ HandshakePairInit

SpecPlain == Init /\ [][NextPlain]_vars

SpecMuxCodec == Init /\ [][NextMuxCodec]_vars

SpecPingPong == Init /\ [][NextPingPong]_vars

SpecTransport == Init /\ [][NextTransport]_vars

SpecPipe == Init /\ [][NextPipe]_vars

SpecMux == Init /\ [][NextMux]_vars

SpecTransportRead == Init /\ [][NextTransportRead]_vars

SpecStream == Init /\ [][NextStream]_vars

SpecDecoders == Init /\ [][NextDecoders]_vars

SpecPingPongLive ==
    Init /\ [][NextPingPong]_vars /\ WF_vars(PPFlushAccepted)

SpecValidate == Init /\ [][NextValidate]_vars

SpecTimeout == Init /\ [][NextTimeout]_vars

SpecHandshake == Init /\ [][NextHandshake]_vars

SpecWire == Init /\ [][NextWire]_vars

SpecPingPipe == Init /\ [][NextPingPipe]_vars

SpecHandshakePair == Init /\ [][NextHandshakePair]_vars

\* Each handshake future is polled when what it waits for has happened.
SpecHandshakePairLive ==
    /\ Init /\ [][NextHandshakePair]_vars
    /\ WF_vars(HcServerFirst)
    /\ WF_vars(HcServerSent)
    /\ WF_vars(HcClientFirst)

SpecEcho == Init /\ [][NextEcho]_vars

\* The dispatchers write, flush and read when the transport lets them and
\* readiness is signalled; nothing promises a read that no readiness
\* signal asked for.
SpecEchoLive ==
    /\ Init /\ [][NextEcho]_vars
    /\ \A p \in EcSides :
          /\ WF_vars(EcWrite(p))
          /\ WF_vars(EcFlush(p))
          /\ WF_vars(EcRead(p))

(***************************************************************************)
(* The claims.                                                             *)
(***************************************************************************)
\* C1: plain codec round trip.  Whenever a text p without '\n' was encoded
\* into an empty buffer and the buffer was then decoded, decode returned
\* Some(p) and left the buffer empty.
C1_PlainRoundTrip ==
    (/\ plast.op = "decode"
     /\ ~plast.raw
     /\ Len(plast.encs) = 1
     /\ ~HasNewline(plast.encs[1]))
    => (/\ plast.res = "Some"
        /\ plast.text = plast.encs[1]
        /\ pbuf = <<>>)

\* C1 witness: a two-byte character went through the round trip.
C1_Witness ==
    /\ plast.op = "decode"
    /\ ~plast.raw
    /\ plast.encs = <<(<<233, 97>>)>>
    /\ plast.res = "Some"

\* C5: multiplexed codec round trip.  Whenever a frame (r, p), r any
\* RequestId and p without '\n', was encoded into an empty buffer and the
\* buffer was then decoded, decode returned Some((r, p)).
C5_MuxRoundTrip ==
    (/\ mlast.op = "decode"
     /\ ~mlast.raw
     /\ Len(mlast.encs) = 1
     /\ ~HasNewline(mlast.encs[1].text))
    => (/\ mlast.res = "Some"
        /\ mlast.id = mlast.encs[1].id
        /\ mlast.text = mlast.encs[1].text)

\* C6: PingPong.poll never returns "[ping]"; what it has returned is what
\* the upstream stream yielded, end of stream included, without the pings,
\* unchanged and in the same order.
C6_PingNeverSurfaces ==
    /\ \A i \in 1..Len(ppOut) : ppOut[i] # Msg(Ping)
    /\ ppOut = SelectSeq(upHist, LAMBDA m : m # Msg(Ping) /\ m.kind # "err")

\* C6 witness: a ping arrived between two other items and only those two
\* were returned.
C6_Witness ==
    /\ upHist = <<Msg(<<97>>), Msg(Ping), Eof>>
    /\ ppOut = <<Msg(<<97>>), Eof>>

\* C7: in the frames sent upstream, every application frame comes after the
\* pongs for all the pings that were intercepted before it was submitted.
C7_PongBeforeLaterFrames ==
    \A i \in 1..Len(upSent) :
        upSent[i].kind = "app" =>
            Cardinality({j \in 1..(i - 1) : upSent[j].kind = "pong"})
                >= upSent[i].seen

\* C7 witness: an application frame was sent upstream after two pings had
\* been intercepted, behind an earlier application frame.
C7_Witness ==
    /\ ppLast.op = "start_send"
    /\ ppLast.ret = "Ready"
    /\ \E i \in 1..Len(upSent) :
          /\ upSent[i].kind = "app"
          /\ upSent[i].seen = 2
          /\ \E j \in 1..(i - 1) : upSent[j].kind = "app"

\* C8: start_send with pongs owed returns NotReady with the same item and
\* makes no call of upstream.start_send, leaving the upstream and the
\* counter as they were; with none owed it makes exactly one call with the
\* item and returns what the upstream answered.
C8_WriteGating ==
    ppLast.op = "start_send" =>
        IF ppLast.pongs > 0
        THEN /\ ppLast.ret = "NotReady"
             /\ ppLast.retItem = ppLast.item
             /\ ppLast.calls = 0
             /\ upSent = ppLast.sent
             /\ pongs_remaining = ppLast.pongs
        ELSE /\ ppLast.calls = 1
             /\ ppLast.ret = ppLast.ans
             /\ upSent = IF ppLast.ans = "Ready"
                         THEN Append(ppLast.sent,
                                     SentApp(ppLast.item, ppPings))
                         ELSE ppLast.sent
             /\ pongs_remaining = 0

\* C8 witness: a start_send was deferred while two pongs were owed.
C8_Witness ==
    /\ ppLast.op = "start_send"
    /\ ppLast.pongs = 2
    /\ ppLast.ret = "NotReady"

RECURSIVE WireFormat(_)
\* The plain wire format of a sequence of payloads: each payload's bytes
\* followed by '\n'.
WireFormat(ps) ==
    IF ps = <<>> THEN <<>>
    ELSE (as_bytes(Head(ps)) \o <<NL>>) \o WireFormat(Tail(ps))

\* C9: the bytes handed to the inner stream, followed by the undrained rest
\* of the write buffer, are the wire format of the accepted frames in
\* acceptance order (so the bytes handed over are a prefix of it, with no
\* byte sent twice or skipped); and a write put a new frame in the buffer
\* only when the position was at the buffer's length.
C9_WireIsPrefix ==
    /\ write_pos <= Len(write_buffer)
    /\ wire \o SubSeq(write_buffer, write_pos + 1, Len(write_buffer))
         = WireFormat(accepted)
    /\ (tLast.op = "write" /\ accepted # tLast.pre.acc)
         => tLast.pre.pos = Len(tLast.pre.buf)

\* C9 witness: a flush was cut short by would-block inside the second
\* frame and a later flush resumed and drained it.
C9_Witness ==
    /\ tLast.op = "flush"
    /\ tLast.ret = "Ok(Some)"
    /\ tLast.pre.pos > 0
    /\ tLast.pre.pos < Len(tLast.pre.buf)
    /\ Len(accepted) = 2
    /\ write_pos = Len(write_buffer)

\* C10: a write of a Message while the previous one is undrained returns
\* the "transport has pending writes" error and changes nothing: not the
\* buffer, not its position, not what the inner stream was given, and the
\* frame is not among the accepted ones.
C10_PendingWriteRejected ==
    (/\ tLast.op = "write"
     /\ tLast.frame.kind = "Message"
     /\ tLast.pre.pos < Len(tLast.pre.buf))
    => (/\ tLast.ret = "Err(pending writes)"
        /\ write_buffer = tLast.pre.buf
        /\ write_pos = tLast.pre.pos
        /\ wire = tLast.pre.wire
        /\ accepted = tLast.pre.acc)

\* C10 witness: a write was rejected while a partly flushed frame was in
\* the buffer.
C10_Witness ==
    /\ tLast.op = "write"
    /\ tLast.ret = "Err(pending writes)"
    /\ tLast.pre.pos > 0
    /\ tLast.frame.text # tLast.pre.acc[Len(tLast.pre.acc)]

\* The requests of the calls Validate forwarded, in the order of forwarding.
FwdReqs == [k \in 1..Len(plFwd) |-> plCalls[plFwd[k]].req]

\* C2: a call whose request contains '\n' is answered at once with
\* InvalidInput; the step that makes the call leaves the forwarded calls,
\* the PendingCalls and the bytes written to the transport as they were,
\* and at every moment no forwarded call has a '\n' in its request and the
\* bytes written are exactly the lines of the forwarded requests.
C2_NewlineRequestRejected ==
    /\ [](/\ \A i \in 1..Len(plCalls) :
               HasNewline(plCalls[i].req) =>
                  /\ plCalls[i].st = "err"
                  /\ plCalls[i].val = "InvalidInput"
                  /\ \A k \in 1..Len(plFwd) : plFwd[k] # i
                  /\ \A k \in 1..Len(plInflight) : plInflight[k] # i
          /\ WireFormat(peerReqs) \o c2s = WireFormat(FwdReqs))
    /\ [][(/\ Len(plCalls') = Len(plCalls) + 1
           /\ HasNewline(plCalls'[Len(plCalls')].req))
          => (/\ plFwd' = plFwd
              /\ plInflight' = plInflight
              /\ c2s' = c2s
              /\ plCalls'[Len(plCalls')].st = "err")]_vars

\* C2 witness: a call with "a\nb" was rejected while an earlier call is
\* still pending and its request line is the only thing written.
C2_Witness ==
    /\ Len(plCalls) = 2
    /\ plCalls[1].st = "pending"
    /\ plCalls[2].req = <<97, NL, 98>>
    /\ plCalls[2].st = "err"
    /\ plCalls[2].val = "InvalidInput"
    /\ plInflight = <<1>>
    /\ c2s = as_bytes(plCalls[1].req) \o <<NL>>

\* C3: the peer reads the forwarded requests in submission order; the k-th
\* Message frame the client received resolved the k-th forwarded call, and
\* the later forwarded calls are the PendingCalls, oldest first; and when
\* the peer has answered in request order, every resolved call holds the
\* response to its own request.
C3_PipelineDiscipline ==
    /\ \A k \in 1..Len(plFwd) : \A j \in 1..Len(plFwd) :
           k < j => plFwd[k] < plFwd[j]
    /\ Len(peerReqs) <= Len(plFwd)
    /\ \A k \in 1..Len(peerReqs) : peerReqs[k] = FwdReqs[k]
    /\ WireFormat(peerReqs) \o c2s = WireFormat(FwdReqs)
    /\ Len(plFrames) <= Len(plFwd)
    /\ \A k \in 1..Len(plFrames) :
           /\ plCalls[plFwd[k]].st = "ok"
           /\ plCalls[plFwd[k]].val = plFrames[k]
    /\ plConn = "open" =>
           plInflight = SubSeq(plFwd, Len(plFrames) + 1, Len(plFwd))
    /\ (\A j \in 1..Len(answered) : answered[j] = j) =>
           \A i \in 1..Len(plCalls) :
               plCalls[i].st = "ok" =>
                   plCalls[i].val = PeerResponse(plCalls[i].req)

\* C3 witness: A, B, C were submitted, the peer answered rA, rB, rC, and
\* the first two frames have resolved A and B while C is still pending.
C3_Witness ==
    /\ Len(plCalls) = 3
    /\ plFwd = <<1, 2, 3>>
    /\ answered = <<1, 2, 3>>
    /\ plCalls[1].req # plCalls[2].req
    /\ plFrames = <<PeerResponse(plCalls[1].req), PeerResponse(plCalls[2].req)>>
    /\ plCalls[1].st = "ok" /\ plCalls[1].val = plFrames[1]
    /\ plCalls[2].st = "ok" /\ plCalls[2].val = plFrames[2]
    /\ plCalls[3].st = "pending"
    /\ plInflight = <<3>>

\* The position among the forwarded calls of the call stored under id r,
\* or 0 when r is no forwarded call's id.
KeyedBy(r) ==
    IF \E j \in 1..Len(mxFwd) : IdOf(j) = r
    THEN CHOOSE j \in 1..Len(mxFwd) : IdOf(j) = r
    ELSE 0

\* C4: every frame the client received resolved the call stored under the
\* frame's RequestId, with the frame's payload, and that entry is gone from
\* the map; the map holds exactly the forwarded calls no frame has
\* resolved, each under its own id; the calls were resolved in the order
\* the frames arrived; and every resolved call holds the response to its
\* own request, whatever order the peer answered in.
C4_MultiplexDiscipline ==
    /\ \A k \in 1..Len(mxFrames) :
           LET j == KeyedBy(mxFrames[k].id)
           IN  /\ j # 0
               /\ mxResolved[k] = mxFwd[j]
               /\ mxCalls[mxFwd[j]].st = "ok"
               /\ mxCalls[mxFwd[j]].val = mxFrames[k].text
               /\ \A e \in mxPending : e.id # mxFrames[k].id
    /\ Len(mxResolved) = Len(mxFrames)
    /\ mxConn = "open" =>
           mxPending = {[id |-> IdOf(j), call |-> mxFwd[j]] :
                          j \in {i \in 1..Len(mxFwd) :
                                   mxCalls[mxFwd[i]].st = "pending"}}
    /\ \A i \in 1..Len(mxCalls) :
           mxCalls[i].st = "ok" =>
               mxCalls[i].val = PeerResponse(mxCalls[i].req)

\* C4 witness: A (id 1) and B (id 2) were outstanding, the peer answered
\* rB then rA, and B was resolved before A, each with its own payload.
C4_Witness ==
    /\ Len(mxCalls) = 2
    /\ mxCalls[1].req = <<97>>
    /\ mxCalls[2].req = <<98>>
    /\ mxAnswered = <<2, 1>>
    /\ mxFrames = <<[id |-> IdOf(2), text |-> <<114, 98>>],
                    [id |-> IdOf(1), text |-> <<114, 97>>]>>
    /\ mxResolved = <<2, 1>>
    /\ mxCalls[1].st = "ok" /\ mxCalls[1].val = <<114, 97>>
    /\ mxCalls[2].st = "ok" /\ mxCalls[2].val = <<114, 98>>
    /\ mxPending = {}

RECURSIVE LineItems(_)
\* What the complete lines of a byte sequence are as frames, in order: a
\* Message for a line of valid UTF-8, the "invalid string" error otherwise.
LineItems(bytes) ==
    LET i == PositionNL(bytes)
    IN  IF i = 0 THEN <<>>
        ELSE LET s == from_utf8(SubSeq(bytes, 1, i - 1))
             IN  <<[ret |-> IF s.ok THEN "Message"
                            ELSE "Err(invalid string)",
                    text |-> s.text]>>
                 \o LineItems(SubSeq(bytes, i + 1, Len(bytes)))

\* C11: read returns Ok(None) exactly when the inner stream answered
\* would-block, so a would-block is never an error; it returns Done only
\* when the inner read returned zero bytes at the end of the input, and by
\* then every complete line received has been returned; and at every moment
\* the lines returned are the complete lines of the bytes received that are
\* no longer in the read buffer, in arrival order.
C11_ReadOutcomes ==
    /\ (rLast.ret = "Ok(None)") <=> (rLast.inner = "Err(WouldBlock)")
    /\ rLast.ret = "Err(io)" => rLast.inner = "Err(io)"
    /\ rLast.ret = "Done" =>
           /\ rLast.inner = "Ok(0)"
           /\ peerClosed
           /\ netIn = <<>>
           /\ rItems = LineItems(consumed)
    /\ Len(read_buffer) <= Len(consumed)
    /\ read_buffer = SubSeq(consumed, Len(consumed) - Len(read_buffer) + 1,
                            Len(consumed))
    /\ rItems = LineItems(SubSeq(consumed, 1,
                                 Len(consumed) - Len(read_buffer)))

\* C11 witness: "a\n\na" arrived, the peer hung up, and read returned
\* Message("a"), Message("") and then Done, the unfinished "a" still in the
\* buffer.
C11_Witness ==
    /\ rLast.ret = "Done"
    /\ rItems = <<[ret |-> "Message", text |-> <<97>>],
                  [ret |-> "Message", text |-> <<>>]>>
    /\ read_buffer = <<97>>

C13_AssertionNeverFails ==
    /\ ~(tLast.op = "is_writable" /\ tLast.ret = "panic")
    /\ write_pos < Len(write_buffer) => ~innerWritable

\* The first line of the buffer a decode was called on: its bytes as text.
SLastLine ==
    from_utf8(SubSeq(sLast.buf, 1, PositionNL(sLast.buf) - 1))

\* C14: decoding_head is true on a new codec; a decode that finds no line
\* leaves it and the buffer alone; a decoded empty line negates it and is
\* Message("", body=true) in head mode, Body(None) in body mode; a decoded
\* non-empty line leaves it alone and is Message(line, body=false) in head
\* mode, Body(Some(line)) in body mode.
C14_StreamDecodeStates ==
    /\ sLast.op = "new" => decoding_head
    /\ (sLast.op = "decode" /\ PositionNL(sLast.buf) = 0) =>
           /\ sLast.res = "None"
           /\ decoding_head = sLast.head
           /\ sbuf = sLast.buf
    /\ (sLast.op = "decode" /\ PositionNL(sLast.buf) # 0 /\ SLastLine.ok) =>
           /\ sLast.res = "Some"
           /\ IF SLastLine.text = <<>>
              THEN /\ decoding_head = ~sLast.head
                   /\ sLast.frame = IF sLast.head THEN SMessage(<<>>, TRUE)
                                    ELSE SBodyNone
              ELSE /\ decoding_head = sLast.head
                   /\ sLast.frame = IF sLast.head
                                    THEN SMessage(SLastLine.text, FALSE)
                                    ELSE SBodySome(SLastLine.text)

\* C14 witness: a head, a chunk and the end of the body were decoded, the
\* last decode being the one that went back to head mode.
C14_Witness ==
    /\ sLast.op = "decode"
    /\ sLast.head = FALSE
    /\ decoding_head = TRUE
    /\ sFrames = <<SMessage(<<>>, TRUE), SBodySome(<<97>>), SBodyNone>>

\* C15: in the frames one codec decoded, a Message has body=true exactly
\* when its text is empty; the first frame is a Message; a Body frame comes
\* right after a Message with body=true or after a Body(Some); and a
\* Message comes first or right after a Message with body=false or after a
\* Body(None).
C15_StreamFrameGrammar ==
    \A k \in 1..Len(sFrames) :
        LET f == sFrames[k]
            InBody == /\ k > 1
                      /\ \/ sFrames[k - 1] = SMessage(<<>>, TRUE)
                         \/ (sFrames[k - 1].kind = "Body"
                             /\ sFrames[k - 1].flag)
        IN  /\ f.kind \in {"Message", "Body"}
            /\ f.kind = "Message" => (f.flag = (f.text = <<>>))
            /\ (f.kind = "Body") = InBody

\* C15 witness: raw bytes "\n\n\n" and one more line were decoded: an empty
\* body, then the next head.
C15_Witness ==
    /\ sRaw
    /\ Len(sFrames) = 3
    /\ sFrames[1] = SMessage(<<>>, TRUE)
    /\ sFrames[2] = SBodyNone
    /\ sFrames[3] = SMessage(<<>>, TRUE)

\* C16: encode of a Message whose text is empty exactly when its body flag
\* is set returns Ok and appends the text and '\n'; encode of any other
\* Message panics, returns no error value and appends nothing.
C16_StreamEncodeAssert ==
    (sLast.op = "encode" /\ sLast.frame.kind = "Message") =>
        IF (sLast.frame.text = <<>>) = sLast.frame.flag
        THEN /\ sLast.res = "Ok"
             /\ sbuf = (sLast.buf \o as_bytes(sLast.frame.text)) \o <<NL>>
        ELSE /\ sLast.res = "panic"
             /\ sState = "panicked"
             /\ sbuf = sLast.buf

\* C16 witness: a Message with text "a" and body=true was handed to encode
\* after another frame, and the call panicked.
C16_Witness ==
    /\ sLast.op = "encode"
    /\ sLast.frame = SMessage(<<97>>, TRUE)
    /\ sLast.res = "panic"
    /\ sLast.buf # <<>>

\* A frame sequence is the wire form of a Stream: the empty head with
\* body=true, Body(Some(chunk)) frames, and Body(None) at the end.
IsStreamEncoding(fs) ==
    /\ Len(fs) >= 2
    /\ fs[1] = SMessage(<<>>, TRUE)
    /\ fs[Len(fs)] = SBodyNone
    /\ \A k \in 2..(Len(fs) - 1) : fs[k].kind = "Body" /\ fs[k].flag

\* C17: when the frames encoded are the wire form of a Stream and a new
\* codec has decoded all their bytes, the frames decoded are the frames
\* encoded.
C17_StreamRoundTrip ==
    (/\ ~sRaw
     /\ IsStreamEncoding(sSent)
     /\ sbuf = <<>>)
    => sFrames = sSent

\* C19: a plain decode (and the Parser's parse) of a buffer without '\n'
\* returns None and leaves the buffer as it was; of a buffer with one, it
\* leaves exactly the bytes after the first '\n', in order, and when the
\* bytes before it are valid UTF-8 it returns them as the text.
C19_PlainDecodeEffect ==
    plast.op \in {"decode", "parse"} =>
        LET i == PositionNL(plast.pre)
        IN  IF i = 0
            THEN /\ plast.res = "None"
                 /\ pbuf = plast.pre
            ELSE /\ plast.res # "None"
                 /\ pbuf = SubSeq(plast.pre, i + 1, Len(plast.pre))
                 /\ from_utf8(SubSeq(plast.pre, 1, i - 1)).ok =>
                        /\ plast.res = "Some"
                        /\ plast.text =
                              from_utf8(SubSeq(plast.pre, 1, i - 1)).text

\* C19 witness: decode of "a\n\nA" with A a byte that is not a character
\* returned "a" and left "\nA".
C19_Witness ==
    /\ plast.op = "decode"
    /\ plast.pre = <<97, NL, NL, 255>>
    /\ plast.res = "Some"
    /\ plast.text = <<97>>
    /\ pbuf = <<NL, 255>>

\* C18: a multiplexed decode of a buffer that has no '\n' at offset 4 or
\* later (a buffer of fewer than 5 bytes is one) returns Ok(None) and
\* leaves the buffer as it was, whatever its first four bytes are.
C18_MuxDecodeNeedsFrame ==
    (/\ mlast.op = "decode"
     /\ \A k \in 5..Len(mlast.pre) : mlast.pre[k] # NL)
    => (/\ mlast.res = "None"
        /\ mbuf = mlast.pre)

\* C18 witness: decode returned Ok(None) on a buffer of 5 bytes or more
\* whose fourth byte is 0x0A.
C18_Witness ==
    /\ mlast.op = "decode"
    /\ Len(mlast.pre) >= 5
    /\ mlast.pre[4] = NL
    /\ mlast.res = "None"
    /\ mbuf = mlast.pre

\* Over the bytes of the model ('\n', 'a', 0xC3, 0xA9, 0xFF) a line is
\* valid UTF-8 exactly when it has no 0xFF and its 0xC3 and 0xA9 bytes come
\* in pairs 0xC3 0xA9.
WellFormedLine(b) ==
    \A k \in 1..Len(b) :
        /\ b[k] # 255
        /\ b[k] = 195 => (k < Len(b) /\ b[k + 1] = 169)
        /\ b[k] = 169 => (k > 1 /\ b[k - 1] = 195)

\* C20: when the bytes hold a complete line that is not valid UTF-8, the
\* plain, the multiplexed and the streaming decode (in either mode) and the
\* transport's read each return the "invalid string" error and no frame;
\* when the line is valid UTF-8 none of them returns an error.
C20_InvalidUtf8IsError ==
    (dlast.op = "decode" /\ PositionNL(dlast.pre) # 0) =>
        LET line == SubSeq(dlast.pre, 1, PositionNL(dlast.pre) - 1)
        IN  IF WellFormedLine(line)
            THEN /\ dlast.plain = "Some"
                 /\ dlast.mux = "Some"
                 /\ dlast.shead = "Some"
                 /\ dlast.sbody = "Some"
                 /\ dlast.read = {"Message"}
            ELSE /\ dlast.plain = "Err"
                 /\ dlast.mux = "Err"
                 /\ dlast.shead = "Err"
                 /\ dlast.sbody = "Err"
                 /\ dlast.read = {"Err(invalid string)"}

\* C20 witness: the line "a" followed by the first byte of a two-byte
\* character and nothing else was decoded, and every decoder returned the
\* error.
C20_Witness ==
    /\ dlast.op = "decode"
    /\ dlast.pre = <<97, 195, NL, 97>>
    /\ dlast.plain = "Err"
    /\ dlast.mux = "Err"
    /\ dlast.shead = "Err"
    /\ dlast.sbody = "Err"
    /\ dlast.read = {"Err(invalid string)"}
    /\ dbuf = <<97>>

\* C21: a request without '\n' is handed to the inner service as it is;
\* when the inner service answers with a text containing '\n' the caller
\* gets InvalidInput and not that text, when it answers with any other text
\* the caller gets that text, and when it fails the caller gets its error.
C21_ValidateForwards ==
    /\ (vLast.op \in {"call", "done"} /\ ~HasNewline(vLast.req)) =>
           vLast.fwd = <<vLast.req>>
    /\ vLast.op = "done" =>
           IF ~vLast.inner.ok
           THEN vLast.out.st = "err" /\ vLast.out.err = "inner"
           ELSE IF \E k \in 1..Len(vLast.inner.val) : vLast.inner.val[k] = NL
           THEN /\ vLast.out.st = "err"
                /\ vLast.out.err = "InvalidInput"
                /\ vLast.out.val = <<>>
           ELSE /\ vLast.out.st = "ok"
                /\ vLast.out.val = vLast.inner.val

\* C21 witness: the request "a" was forwarded and the inner service's
\* answer "a\n" reached the caller as InvalidInput.
C21_Witness ==
    /\ vLast.op = "done"
    /\ vLast.req = <<97>>
    /\ vLast.fwd = <<(<<97>>)>>
    /\ vLast.inner = [ok |-> TRUE, val |-> <<97, NL>>]
    /\ vLast.out.err = "InvalidInput"

\* The peer has written its responses in the order of the requests.
PeerInOrder == \A j \in 1..Len(answered) : answered[j] = j

\* C22: the step in which Validate rejects a request leaves the connection
\* as it was: its state, both byte streams, the PendingCalls, the frames
\* received and every earlier call; and a valid call made after a rejected
\* one is forwarded, and when it resolves (the peer answering in order) it
\* holds the response to its own request.
C22_ValidationIsRequestLevel ==
    /\ [][(/\ Len(plCalls') = Len(plCalls) + 1
           /\ HasNewline(plCalls'[Len(plCalls')].req))
          => (/\ UNCHANGED <<plFwd, plInflight, c2s, s2c, peerReqs, plFrames,
                             plConn>>
              /\ SubSeq(plCalls', 1, Len(plCalls)) = plCalls)]_vars
    /\ [](\A i \in 1..Len(plCalls) : \A j \in 1..Len(plCalls) :
            (/\ i < j
             /\ HasNewline(plCalls[i].req)
             /\ ~HasNewline(plCalls[j].req))
            => (/\ \E k \in 1..Len(plFwd) : plFwd[k] = j
                /\ (PeerInOrder /\ plCalls[j].st = "ok") =>
                       plCalls[j].val = PeerResponse(plCalls[j].req)))

\* C22 witness: "a\nb" was rejected, then "a" was called on the same client
\* and resolved with "ra", the connection still open.
C22_Witness ==
    /\ Len(plCalls) = 2
    /\ plCalls[1].req = <<97, NL, 98>>
    /\ plCalls[1].st = "err"
    /\ plCalls[2].req = <<97>>
    /\ plCalls[2].st = "ok"
    /\ plCalls[2].val = <<114, 97>>
    /\ plConn = "open"

\* C26: every call is resolved at most once and is pending exactly while it
\* has not been resolved; the PendingCalls are the forwarded calls not yet
\* resolved; the calls resolved with a response are as many as the frames
\* received; and once the client has seen the peer's close no call is
\* pending: every forwarded call no frame had resolved is failed with
\* "connection closed".
C26_ResolvedExactlyOnce ==
    /\ \A i \in 1..Len(plCalls) :
           /\ plCalls[i].n <= 1
           /\ (plCalls[i].st = "pending") = (plCalls[i].n = 0)
           /\ (plCalls[i].st = "pending") =
                  (\E k \in 1..Len(plInflight) : plInflight[k] = i)
    /\ \A k \in 1..Len(plInflight) : \A j \in 1..Len(plInflight) :
           plInflight[k] = plInflight[j] => k = j
    /\ Cardinality({i \in 1..Len(plCalls) : plCalls[i].st = "ok"})
           = Len(plFrames)
    /\ plConn = "closed" =>
           \A k \in 1..Len(plFwd) :
               IF k <= Len(plFrames)
               THEN plCalls[plFwd[k]].st = "ok"
               ELSE /\ plCalls[plFwd[k]].st = "err"
                    /\ plCalls[plFwd[k]].val = "connection closed"
                    /\ plCalls[plFwd[k]].n = 1

\* C26 witness: of two calls in flight the first was resolved by its
\* response and the second was failed when the peer closed.
C26_Witness ==
    /\ plConn = "closed"
    /\ plFwd = <<1, 2>>
    /\ Len(plFrames) = 1
    /\ plCalls[1].st = "ok" /\ plCalls[1].n = 1
    /\ plCalls[2].st = "err" /\ plCalls[2].val = "connection closed"
    /\ plCalls[2].n = 1

\* C28: the step in which a caller drops a future leaves the PendingCalls
\* and the bytes written as they were; the requests of dropped calls are
\* read by the peer like the others; the k-th frame is consumed for the
\* k-th forwarded call, dropped or not; and with the peer answering in
\* order every call resolved with a response holds the response to its own
\* request.
C28_DropKeepsAlignment ==
    /\ [][plDropped' # plDropped =>
            UNCHANGED <<plInflight, plFwd, c2s, s2c, peerReqs>>]_vars
    /\ [](/\ WireFormat(peerReqs) \o c2s = WireFormat(FwdReqs)
          /\ \A k \in 1..Len(plFrames) : plCalls[plFwd[k]].n = 1
          /\ PeerInOrder =>
                \A i \in 1..Len(plCalls) :
                    plCalls[i].st = "ok" =>
                        plCalls[i].val = PeerResponse(plCalls[i].req))

\* C28 witness: the future of the first call was dropped while the call
\* was in flight, its response arrived and was consumed, and the second
\* call, with another request, got its own response.
C28_Witness ==
    /\ plDropped = {1}
    /\ plFwd = <<1, 2>>
    /\ plCalls[1].req # plCalls[2].req
    /\ plFrames = <<PeerResponse(plCalls[1].req),
                    PeerResponse(plCalls[2].req)>>
    /\ plCalls[2].st = "ok"
    /\ plCalls[2].val = PeerResponse(plCalls[2].req)

\* The pongs the upstream has accepted.
PongsSent == Cardinality({i \in 1..Len(upSent) : upSent[i].kind = "pong"})

\* C24: the pings intercepted are the pongs the upstream accepted plus
\* pongs_remaining; and a poll_complete that started with p pongs owed
\* appended only "[pong]" frames to what the upstream accepted, one per
\* unit taken off the counter, made one send per pong accepted and at most
\* one more, the refused one, stopped short of zero only at a refused send,
\* and after a send answered NotReady returned what the upstream's own
\* poll_complete returned.
C24_PongAccounting ==
    /\ ppPings = PongsSent + pongs_remaining
    /\ ppLast.op = "poll_complete" =>
           LET acc == Len(upSent) - Len(ppLast.sent)
           IN  /\ acc \in 0..ppLast.pongs
               /\ upSent = ppLast.sent \o [i \in 1..acc |-> SentPong]
               /\ pongs_remaining = ppLast.pongs - acc
               /\ ppLast.calls = acc + (IF ppLast.stop = "none" THEN 0 ELSE 1)
               /\ ppLast.stop = "none" => pongs_remaining = 0
               /\ ppLast.stop = "NotReady" => ppLast.ret = ppLast.ans

\* C24 witness: with two pongs owed the upstream accepted one and refused
\* the next; poll_complete returned Ready and one pong is still owed.
C24_Witness ==
    /\ ppLast.op = "poll_complete"
    /\ ppLast.pongs = 2
    /\ ppLast.stop = "NotReady"
    /\ ppLast.ret = "Ready"
    /\ pongs_remaining = 1
    /\ PongsSent = 1
    /\ ppPings = 2

\* C25: when the dispatcher keeps calling poll_complete and the upstream
\* eventually accepts the sends, a state in which pongs are owed is
\* eventually followed by one in which every intercepted ping has its pong
\* accepted upstream, unless the connection has failed; application frames
\* submitted meanwhile are refused and do not delay it for ever.
C25_PingEventuallyAnswered ==
    (PongsSent < ppPings) ~> (PongsSent = ppPings \/ ppState = "failed")

\* C25 witness: an application frame is refused because a pong is owed,
\* a pong having been sent for an earlier ping.
C25_Witness ==
    /\ ppLast.op = "start_send"
    /\ ppLast.ret = "NotReady"
    /\ pongs_remaining = 1
    /\ PongsSent = 1
    /\ ppState = "open"

\* C27: a step in which the multiplex client takes from its transport a
\* frame whose RequestId no entry of the pending map carries fails the
\* connection: the frame is not counted among the frames that resolved a
\* call, no call becomes resolved with a response, and the calls already
\* resolved keep what they hold.
C27_UnmatchedIdIsProtocolError ==
    [][LET d == MuxLineCodec_decode(mx_s2c)
       IN  (/\ mxConn = "open"
            /\ Len(mx_s2c') < Len(mx_s2c)
            /\ d.res = "Some"
            /\ \A e \in mxPending : e.id # d.id)
           => (/\ mxConn' = "failed"
               /\ mxFrames' = mxFrames
               /\ mxResolved' = mxResolved
               /\ \A i \in 1..Len(mxCalls) :
                      mxCalls'[i].st = "ok" => mxCalls'[i] = mxCalls[i])]_vars

\* C27 witness: the peer answered the first call twice; the first frame
\* resolved it, the second found no entry, and the connection failed with
\* the second call still outstanding.
C27_Witness ==
    /\ mxConn = "failed"
    /\ Len(mxCalls) = 2
    /\ mxAnswered = <<1, 0>>
    /\ mxFrames = <<[id |-> IdOf(1), text |-> PeerResponse(mxCalls[1].req)]>>
    /\ mxCalls[1].st = "ok"
    /\ mxCalls[2].st = "err"
    /\ mxCalls[2].val = "Connection"
    /\ mx_s2c = <<>>

\* The outcomes delivered to the caller of call i.
DeliveredTo(i) == {k \in 1..Len(tmDelivered) : tmDelivered[k].call = i}

\* C29: a call through Timeout delivers at most one outcome, and has
\* delivered one exactly when the race is over; the outcome is the inner
\* call's result when the inner call took less than the duration and the
\* timeout error when it took more; an inner result is delivered only as
\* the result of its own call; and an inner call that completed after the
\* timeout has its result among the discarded ones, the caller keeping the
\* timeout error.
C29_TimeoutOneOutcome ==
    \A i \in 1..Len(tmCalls) :
        LET c == tmCalls[i]
        IN  /\ Cardinality(DeliveredTo(i)) <= 1
            /\ (Cardinality(DeliveredTo(i)) = 1) = (c.out # "none")
            /\ \A k \in DeliveredTo(i) :
                   /\ tmDelivered[k].kind = c.out
                   /\ c.ms < TimeoutMs => tmDelivered[k].kind = "inner"
                   /\ c.ms > TimeoutMs => tmDelivered[k].kind = "timeout"
                   /\ tmDelivered[k].kind = "inner" =>
                          /\ c.inner = "done"
                          /\ tmDelivered[k].res = c.res
                          /\ tmDelivered[k].res \in Echo_results(c.req)
            /\ (c.out = "timeout" /\ c.inner = "done") =>
                   \E k \in 1..Len(tmDiscarded) :
                       /\ tmDiscarded[k].call = i
                       /\ tmDiscarded[k].res = c.res
            /\ c.out = "none" => c.inner = "running"

\* C29 witness: a call whose inner service slept longer than the duration
\* timed out, the caller got the timeout error and nothing else, and the
\* inner call then completed with the echo, which was discarded.
C29_Witness ==
    /\ Len(tmCalls) = 1
    /\ tmCalls[1].ms > TimeoutMs
    /\ tmCalls[1].out = "timeout"
    /\ tmCalls[1].inner = "done"
    /\ tmDelivered = <<[call |-> 1, kind |-> "timeout", res |-> NoResult]>>
    /\ tmDiscarded = <<[call |-> 1,
                        res |-> [ok |-> TRUE, val |-> tmCalls[1].req]]>>

\* The handshake failed with err, nothing was written and no request was
\* handed to the Service.
HsRejected(err) ==
    /\ hsState = "failed"
    /\ hsErr = err
    /\ hsOut = <<>>
    /\ hsReqs = <<>>

\* The dispatcher has the transport, or has had it, only after the first
\* line was "You ready?" and "Bring it!" was written; before that nothing
\* is written and the Service gets no request.
HsAccepted ==
    /\ (hsState \in {"bound", "closed"} \/ hsReqs # <<>>) =>
           /\ hsFirst = [kind |-> "line", text |-> YouReady]
           /\ hsOut = LineCodec_encode(BringIt, <<>>)
    /\ hsState = "waiting" => (hsOut = <<>> /\ hsReqs = <<>>)
    /\ hsState = "sending" => (hsOut = <<>> /\ hsReqs = <<>>)

\* C30 as stated: the dispatcher gets the transport only after
\* "You ready?" came first and "Bring it!" was sent; and whenever the first
\* line on the connection is anything else, undecodable lines included, or
\* the stream ends first, the connection fails with "invalid handshake",
\* nothing is written and no request reaches the Service.
C30_AnyOtherLineInvalidHandshake ==
    /\ HsAccepted
    /\ (/\ hsFirst.kind \in {"line", "err", "eof"}
        /\ hsFirst # [kind |-> "line", text |-> YouReady])
       => HsRejected("invalid handshake")

\* C30, amended: the dispatcher gets the transport only after "You ready?"
\* came first and "Bring it!" was sent; a first line of valid UTF-8 that is
\* anything else, and the end of the stream, fail the connection with
\* "invalid handshake"; a first line that is no valid UTF-8, and an error
\* of the transport at the end of the stream, fail it with the transport's
\* error; in each of these cases nothing is written and no request reaches
\* the Service.
C30_HandshakeGate ==
    /\ HsAccepted
    /\ (/\ hsFirst.kind \in {"line", "eof"}
        /\ hsFirst # [kind |-> "line", text |-> YouReady])
       => HsRejected("invalid handshake")
    /\ hsFirst.kind \in {"err", "eoferr"} => HsRejected("transport")

\* C30 witness: the line "a" came first, with "You ready?" as the second
\* line; the connection failed with "invalid handshake", nothing was
\* written and the second line stayed in the buffer.
C30_Witness ==
    /\ hsFirst = [kind |-> "line", text |-> <<97>>]
    /\ hsIn = YouReady \o <<NL>>
    /\ HsRejected("invalid handshake")

\* The part of an encoded frame after the 4 id bytes of the multiplexed
\* mode; the whole frame in the simple mode.
FramePayload(f) == IF wMode = "multiplexed" THEN SubSeq(f, 5, Len(f)) ELSE f

\* C23: on a connection between Client::connect and serve, of either
\* crate, the service instance and the client handle are wrapped in
\* Validate; no request handed to the client's transport and no response
\* the service instance returned with Ok contains '\n'; and every encoded
\* frame, after the 4 id bytes in the multiplexed mode, ends with '\n' and
\* has no other.
C23_WireInvariant ==
    /\ wMode # "none" => (/\ wService.made /\ wService.wrap
                          /\ wClient.made /\ wClient.wrap)
    /\ \A i \in 1..Len(wHanded) : ~HasNewline(wHanded[i])
    /\ \A i \in 1..Len(wReturned) : ~HasNewline(wReturned[i])
    /\ \A i \in 1..Len(wFrames) :
           LET body == FramePayload(wFrames[i])
           IN  /\ wMode = "multiplexed" => Len(wFrames[i]) >= 5
               /\ Len(body) >= 1
               /\ body[Len(body)] = NL
               /\ \A j \in 1..(Len(body) - 1) : body[j] # NL

\* C23 witness: a multiplexed connection whose first frame has '\n' as the
\* last id byte; a call with '\n' was refused on the client, the service
\* instance refused a response with '\n' and returned another with Ok.
C23_Witness ==
    /\ wMode = "multiplexed"
    /\ Len(wFrames) >= 1
    /\ wFrames[1][4] = NL
    /\ wCalls > Len(wHanded)
    /\ wServed > Len(wReturned)
    /\ Len(wReturned) >= 1

\* C34: whenever read has returned Ok(None), the read buffer holds no
\* complete line.
C34_NotReadyMeansNoLine ==
    rLast.ret = "Ok(None)" => PositionNL(read_buffer) = 0

\* The position of the last '\n' of a byte sequence, 0 when it has none.
LastNL(bytes) ==
    IF PositionNL(bytes) = 0 THEN 0
    ELSE CHOOSE k \in 1..Len(bytes) :
             bytes[k] = NL /\ \A m \in (k + 1)..Len(bytes) : bytes[m] # NL

\* The number of '\n' bytes in a byte sequence.
CountNL(bytes) == Cardinality({i \in 1..Len(bytes) : bytes[i] = NL})

\* C35: however the bytes of the stream are split over the inner reads,
\* what read has returned so far is an initial part of the lines of the
\* whole stream, in order (a line that is no UTF-8 standing as the
\* "invalid string" error in its place); and when read returns Done it has
\* returned every '\n'-terminated line once, and the bytes after the last
\* '\n' are in the buffer, returned to nobody.
C35_ChunkingIndependence ==
    /\ Len(rItems) <= Len(LineItems(consumed \o netIn))
    /\ rItems = SubSeq(LineItems(consumed \o netIn), 1, Len(rItems))
    /\ rLast.ret = "Done" =>
           /\ Len(rItems) = CountNL(consumed)
           /\ \A k \in 1..Len(rItems) :
                  rItems[k] = LineItems(consumed)[k]
           /\ PositionNL(read_buffer) = 0
           /\ read_buffer = SubSeq(consumed, LastNL(consumed) + 1,
                                   Len(consumed))

\* C35 witness: "a\n\na" arrived in pieces, the last "a" before the peer
\* hung up, so that an earlier read had put it in the buffer and met
\* would-block; read returned Message("a"), Message("") and Done, and "a"
\* stays in the buffer.
C35_Witness ==
    /\ rLast.ret = "Done"
    /\ rLast.pre = <<97>>
    /\ consumed = <<97, NL, NL, 97>>
    /\ rItems = <<[ret |-> "Message", text |-> <<97>>],
                  [ret |-> "Message", text |-> <<>>]>>
    /\ read_buffer = <<97>>
    /\ netIn = <<>>

\* C36: no flush spins: every call of flush, and of write, which ends in
\* flush, returns; and the write position never exceeds the buffer length.
C36_FlushTerminates ==
    /\ tState # "spinning"
    /\ tLast.ret # "spins"
    /\ write_pos <= Len(write_buffer)

\* C39: a poll_complete that returned Ready left no pong owed, and one
\* that left pongs owed without an error returned NotReady.
C39_ReadyOnlyWhenNoPongs ==
    ppLast.op = "poll_complete" =>
        /\ ppLast.ret = "Ready" => pongs_remaining = 0
        /\ (pongs_remaining > 0 /\ ppLast.ret # "Err") =>
               ppLast.ret = "NotReady"

\* C33: the multiplexed encode reserves, before it appends, at least the
\* number of bytes it then writes: 4 id bytes, the payload and 1 delimiter,
\* for every payload and every content of the buffer.
C33_ReserveCoversFrame ==
    mlast.op = "encode" =>
        MuxLineCodec_encode_reserve(mlast.pre)
            >= Len(MuxLineCodec_encode(mlast.id, mlast.text, mlast.pre))
               - Len(mlast.pre)

\* C37: for every Line value, Once(text) with any text (the empty string
\* too) or Stream(chunks), the head frame made from it satisfies the
\* assertion of the streaming encoder, so that encoding it never traps.
C37_LineHeadNeverTraps ==
    sLast.op = "send" => (sLast.res = "Ok" /\ sState = "ok")

\* C38: against a server with the PingPong transport, a pipelined client
\* that pings while calls are outstanding gets, under every interleaving of
\* service completion and ping arrival, for each call the response the
\* service produced for that request, and for ping() success.
C38_PingedPipelineCorrect ==
    \A k \in 1..Len(pgCalls) :
        pgCalls[k].st # "pending" =>
            /\ pgCalls[k].st = "ok"
            /\ pgCalls[k].val = IF pgCalls[k].kind = "ping" THEN Pong
                                ELSE PgService(pgCalls[k].req)

\* The echo can be had: the first call has resolved to Ok("Hello").
EchoedHello ==
    ecCalls # <<>> /\ ecCalls[1].st = "ok" /\ ecCalls[1].val = Hello

\* C32: over the plain transport with the pipeline discipline, on one
\* connection, a client call with "Hello" against a server whose service
\* returns its request eventually resolves to Ok("Hello").
C32_HelloEventuallyEchoed ==
    (ecCalls # <<>> /\ ecCalls[1].req = Hello)
        ~> EchoedHello

\* The requests of the client's calls, in the order of the calls.
HcCallReqs == [k \in 1..Len(hcCalls) |-> hcCalls[k].req]

\* The client's first line was `text`.
HcFirstLine(text) == hcCFirst = [kind |-> "line", text |-> text]

\* The client's handshake failed with `err`.
HcFailed(err) == hcClient = "failed" /\ hcErr = err /\ hcCalls = <<>>

\* What the handshake does whatever the first line is: "You ready?" is the
\* first frame the client writes; the client is usable exactly when the
\* first line it received is "Bring it!"; "No! Go away!" gives 'server at
\* capacity'; and facing the server, the Service is handed the requests of
\* the calls and nothing else, and a call resolves to the echo of its
\* request.
HcGate ==
    /\ hcPeer # "none" =>
           SubSeq(hcWritten, 1, Len(YouReady) + 1)
               = LineCodec_encode(YouReady, <<>>)
    /\ hcPeer = "none" => hcWritten = <<>>
    /\ hcClient = "bound" <=> HcFirstLine(BringIt)
    /\ hcCalls # <<>> => hcClient = "bound"
    /\ HcFirstLine(NoGoAway) => HcFailed("server at capacity")
    /\ hcPeer = "server" =>
           /\ Len(hcReqs) <= Len(hcCalls)
           /\ hcReqs = SubSeq(HcCallReqs, 1, Len(hcReqs))
           /\ \A k \in 1..Len(hcCalls) :
                  hcCalls[k].st # "pending" =>
                      /\ hcCalls[k].st = "ok"
                      /\ hcCalls[k].val = hcCalls[k].req
                      /\ k <= Len(hcReqs)

\* Both handshakes are complete.
HcBothBound == hcClient = "bound" /\ hcServer = "bound"

\* C31 as stated: the client sends "You ready?" first and is usable iff the
\* first line it receives is "Bring it!"; "No! Go away!" gives 'server at
\* capacity' and anything else 'invalid handshake'; facing a
\* ServerLineProto server both handshakes eventually complete and neither
\* handshake line reaches the Service or a call.
C31_AnythingElseInvalidHandshake ==
    /\ [](/\ HcGate
          /\ (hcCFirst # NoFirst /\ ~HcFirstLine(BringIt)
                 /\ ~HcFirstLine(NoGoAway))
                => HcFailed("invalid handshake"))
    /\ (hcPeer = "server") ~> HcBothBound

\* C31 (amended): the client sends "You ready?" as its first frame and is
\* usable iff the first line it receives is "Bring it!"; "No! Go away!"
\* gives 'server at capacity', any other line that decodes, or the end of
\* the stream, gives 'invalid handshake', and a first line that does not
\* decode fails the handshake with the transport's own error; facing a
\* ServerLineProto server both handshakes eventually complete and neither
\* handshake line is delivered to the Service as a request or to a call as
\* its response.
C31_HandshakeEndToEnd ==
    /\ [](/\ HcGate
          /\ (hcCFirst.kind \in {"line", "eof"} /\ ~HcFirstLine(BringIt)
                 /\ ~HcFirstLine(NoGoAway))
                => HcFailed("invalid handshake")
          /\ hcCFirst.kind \in {"err", "eoferr"} => HcFailed("transport"))
    /\ (hcPeer = "server") ~> HcBothBound

\* C31 witness: facing the server both handshakes are complete, and the
\* call with the request "Bring it!" has gone to the Service and resolved
\* to its echo.
C31_Witness ==
    /\ hcPeer = "server"
    /\ HcBothBound
    /\ HcFirstLine(BringIt)
    /\ hcReqs = <<BringIt>>
    /\ hcCalls = <<[req |-> BringIt, st |-> "ok", val |-> BringIt]>>
    /\ hcS2C = <<>>

====
